---- MODULE Spec2Model ----
(***************************************************************************)
(* Model of basementui: the reactive graph of go/signals/signal.go         *)
(* (Signal, Computed, Effect, Batch, the process-wide active-subscriber    *)
(* slot and batch state) and the double-buffered Screen of                 *)
(* go/tui/screen.go with the Render integration of the tui package.        *)
(*                                                                         *)
(* User functions (effect bodies, derived-cell functions, batch bodies,    *)
(* the main program) are small programs: sequences of operations that the  *)
(* model interprets one library call at a time on an explicit call stack   *)
(* per thread.                                                             *)
(***************************************************************************)
EXTENDS Integers, Sequences, FiniteSets, TLC

(***************************************************************************)
(* Bounds                                                                  *)
(***************************************************************************)
MaxVal == 1

MaxBatchOps == 2

ScreenW == 2

ScreenH == 2

MaxDraws == 1

MaxKeys == 3

MaxParams == 2

MaxArgs == 2

MaxChildren == 3

MaxMeasures == 2

MaxBufOps == 3

(***************************************************************************)
(* Identities                                                              *)
(***************************************************************************)
Nil == "nil"

StateCells == {"a", "b", "flag"}

Derived == {"d1", "d2"}

Effects == {"e1", "e2"}

Cells == StateCells \cup Derived

Subs == Derived \cup Effects

Threads == {"t1", "t2"}

KeyEvent(key, rune, mod) == [Key |-> key, Rune |-> rune, Mod |-> mod]

\* no event: the sequence decoded to nothing
NoEvent == KeyEvent("None", 0, "None")

\* the callbacks an application registers with OnKey
Listeners == {"k1", "k2"}

Vals == 0..MaxVal

\* a value of type []int, written as one number so that it can stand where an
\* integer value does: the tens name the backing array of the slice, the units
\* its elements (0 for no element, 1 + v for the one element v)
Slice(id, elems) == 10 * id + (IF elems = <<>> THEN 0 ELSE 1 + elems[1])

\* the elements of a slice
Elems(x) == x % 10

\* two backing arrays for each content of at most one element
Slices == {Slice(id, e) : id \in 1..2, e \in {<<>>} \cup {<<v>> : v \in Vals}}

\* the values the cells of application g hold: "slices" holds []int
CfgVals(g) == IF g = "slices" THEN Slices ELSE Vals

\* New(val): the initial value of the cells of application g
NewValue(g) == IF g = "slices" THEN Slice(1, <<>>) ELSE 0

(***************************************************************************)
(* Operations a user function can perform on the library                   *)
(***************************************************************************)
MkOp(o, c, v, th, el) == [op |-> o, c |-> c, v |-> v, th |-> th, el |-> el]

OpGet(c) == MkOp("get", c, 0, <<>>, <<>>)

OpPeek(c) == MkOp("peek", c, 0, <<>>, <<>>)

OpSet(c, v) == MkOp("set", c, v, <<>>, <<>>)

OpIf(c, th, el) == MkOp("if", c, 0, th, el)

\* Batch(fn); fn is the sequence body
OpBatch(body) == MkOp("batch", Nil, 0, body, <<>>)

OpDispose(e) == MkOp("dispose", e, 0, <<>>, <<>>)

OpCreate(e) == MkOp("create", e, 0, <<>>, <<>>)

\* screen.Frame(draw); draw is the sequence body
OpFrame(body) == MkOp("frame", Nil, 0, body, <<>>)

\* renderNode on a hole: drawTextUnlocked(x, 0, fmt.Sprintf("%v", val), style)
OpDrawVal(x) == MkOp("drawval", Nil, x, <<>>, <<>>)

\* screen.Clear(), screen.Render(), screen.DrawText(..), screen.Close()
OpScreen(m) == MkOp("screen", m, 0, <<>>, <<>>)

OpNewScreen == MkOp("newscreen", Nil, 0, <<>>, <<>>)

OpOnKey(k) == MkOp("onkey", k, 0, <<>>, <<>>)

(***************************************************************************)
(* The applications explored.  Each configuration fixes the function of    *)
(* every derived cell and effect, after the library's tests and examples.  *)
(***************************************************************************)
Configs == {"plain", "cond", "diamond", "twoDerived", "chain"}

\* graphs in which an effect is disposed while its function runs
DisposeConfigs == {"selfdispose", "triggered"}

\* the applications that mount a view on a Screen
RenderConfigs == {"render", "holes"}

\* fn of NewComputed(fn): the operations it performs; its result is
\* CompK(d) plus the sum of the values it read
CompProg(g, d) ==
    CASE g = "diamond" /\ d = "d1" -> <<OpGet("a")>>
      [] g = "twoDerived" /\ d = "d1" -> <<OpGet("a")>>
      [] g = "twoDerived" /\ d = "d2" -> <<OpGet("a")>>
      [] g = "chain" /\ d = "d1" -> <<OpGet("a")>>
      [] g = "race" /\ d = "d1" -> <<OpGet("a")>>
      [] g = "contend" /\ d = "d1" -> <<OpGet("a")>>
      [] g = "reenter" /\ d = "d1" ->
             <<OpIf("b", <<OpSet("a", 1)>>, <<OpSet("a", 0)>>)>>
      [] g = "chain" /\ d = "d2" -> <<OpIf("flag", <<OpGet("d1")>>, <<OpGet("b")>>)>>
      [] OTHER -> <<>>

CompK(d) == IF d = "d1" THEN 10 ELSE 20

\* fn of CreateEffect(fn); for "render" and "holes" the function Render passes:
\* the view function, then Frame around the walk that resolves the holes.  The
\* view of "render" reads a itself and passes the value and the cell b; the
\* view of "holes" passes the cells a and b; the view of "producer" passes the
\* cell a only, b being a cell the application keeps beside the view
EffProg(g, e) ==
    CASE g = "plain" /\ e = "e1" -> <<OpGet("a"), OpGet("b")>>
      [] g = "plain" /\ e = "e2" -> <<OpGet("b")>>
      [] g = "cond" /\ e = "e1" -> <<OpIf("flag", <<OpGet("a")>>, <<OpGet("b")>>)>>
      [] g = "diamond" /\ e = "e1" -> <<OpGet("a"), OpGet("d1")>>
      [] g = "twoDerived" /\ e = "e1" -> <<OpGet("d1"), OpGet("d2")>>
      [] g = "chain" /\ e = "e1" -> <<OpGet("d2")>>
      [] g = "render" /\ e = "e1" ->
             <<OpGet("a"), OpFrame(<<OpDrawVal(0), OpGet("b"), OpDrawVal(1)>>)>>
      [] g = "holes" /\ e = "e1" ->
             <<OpFrame(<<OpGet("a"), OpDrawVal(0), OpGet("b"), OpDrawVal(1)>>)>>
      [] g \in {"producer", "unmount"} /\ e = "e1" ->
             <<OpFrame(<<OpGet("a"), OpDrawVal(0)>>)>>
      [] g = "queue" /\ e = "e1" -> <<OpGet("a")>>
      [] g = "queue" /\ e = "e2" -> <<OpGet("b")>>
      [] g = "slices" /\ e = "e1" -> <<OpGet("a")>>
      [] g = "selfset" /\ e = "e1" -> <<OpGet("a"), OpSet("a", 1), OpGet("b")>>
      [] g = "reenter" /\ e = "e1" ->
             <<OpFrame(<<OpGet("a"), OpDrawVal(0), OpGet("d1"), OpDrawVal(1)>>)>>
      [] g = "selfdispose" /\ e = "e1" ->
             <<OpIf("a", <<OpDispose("e1")>>, <<>>), OpGet("b")>>
      [] g = "triggered" /\ e = "e1" ->
             <<OpIf("a", <<OpSet("b", 1)>>, <<>>), OpGet("a")>>
      [] g = "triggered" /\ e = "e2" ->
             <<OpIf("b", <<OpDispose("e1")>>, <<>>)>>
      [] g = "peek" /\ e = "e1" -> <<OpPeek("a")>>
      [] g = "peek" /\ e = "e2" -> <<OpGet("a"), OpPeek("a")>>
      [] OTHER -> <<>>

CfgEffects(g) ==
    CASE g \in {"plain", "queue", "peek", "triggered"} -> {"e1", "e2"}
      [] g \in {"screen", "paint", "corners", "race", "contend"} -> {}
      [] OTHER -> {"e1"}

CfgDerived(g) ==
    CASE g \in {"twoDerived", "chain"} -> {"d1", "d2"}
      [] g \in {"diamond", "race", "reenter", "contend"} -> {"d1"}
      [] OTHER -> {}

CfgCells(g) ==
    CASE g = "plain" -> {"a", "b"}
      [] g = "cond" -> {"a", "b", "flag"}
      [] g = "chain" -> {"a", "b", "flag"}
      [] g \in RenderConfigs \cup {"producer", "queue", "reenter", "selfset", "unmount"} \cup DisposeConfigs -> {"a", "b"}
      [] g \in {"screen", "paint", "corners"} -> {}
      [] OTHER -> {"a"}

VARIABLES
    cfg,               \* the application explored
    live,              \* threads that issue operations
    value,             \* Signal.value
    subscribers,       \* Signal.subscribers / Computed.subscribers
    cvalue,            \* Computed.value
    dirty,             \* Computed.dirty
    dependencies,      \* Computed.dependencies / Effect.dependencies
    disposed,          \* Effect.disposed (dependencies is nil exactly then)
    created,           \* effects for which CreateEffect was called
    activeSubscriber,  \* global activeSubscriber
    batchDepth,        \* global batchDepth
    batchQueue,        \* global batchQueue
    stack,             \* per thread: the call stack
    panicked,          \* a Go panic was raised (assignment to a nil map)
    curOp,             \* history: the main program's current / last operation
    runs,              \* history: runs of each effect started during curOp
    budget,            \* calls the main program may still make inside its Batch
    hit,               \* history: effects subscribed to a cell changed by curOp
    readSet,           \* history: cells read with Get in the last completed run
    everRead,          \* history: cells read with Get in any completed run
    atCall,            \* history: values, read sets and dependencies when a Set began
    writes,            \* history: Sets of curOp that changed a value
    glitch,            \* history: an effect run was handed a stale cached value
    lastGet,           \* history: last Get or Peek made by the main program
    latest,            \* history: the value passed to the last Set of each cell
    evals,             \* history: calls of Computed.fn since a dependency last changed
    reused,            \* history: derived cells whose cached value a Get returned since then
    innerExit,         \* history: a nested Batch of curOp returned with effects queued
    queued,            \* history: the effects in batchQueue, in the order they were added
    flushed,           \* history: the effects notified by the flush of curOp, in order
    Front,             \* Screen.Front
    Back,              \* Screen.Back
    mu,                \* Screen.mu: the thread holding it, or Nil
    supportsItalic,    \* Screen.supportsItalic
    supportsStrike,    \* Screen.supportsStrike
    closed,            \* Screen.doneChan is closed
    out,               \* what the last render pass wrote to Screen.out
    prevFront,         \* history: Front when the last render pass began
    drawn,             \* history: draw calls since the back buffer was cleared
    painters,          \* history: threads that wrote the back buffer since its last clear
    fresh,             \* history: the back buffer is as the last render pass saw it
    mixed,             \* history: a frame flushed cells written by another thread
    termSize,          \* the terminal's size, as term.GetSize reports it
    cursorShown,       \* the terminal shows its cursor
    rawMode,           \* the terminal is in raw mode
    oldState,          \* Screen.oldState: the mode saved by enableRawMode, or Nil
    restored,          \* history: disableRawMode restored the saved mode
    inputChan,         \* Screen.inputChan: Nil before NewScreen, then "open" or "closed"
    rawCh,             \* inputLoop: the bytes read from stdin and not yet decoded
    typed,             \* history: the number of bytes typed
    pump,              \* inputLoop: where the loop stands
    pending,           \* inputLoop: the event being sent on inputChan, if any
    listeners,         \* the goroutines started by OnKey: where each stands
    got,               \* history: the events each callback was invoked with
    sent,              \* history: the events received from inputChan, in order
    early,             \* history: callbacks registered before any byte was typed
    params,            \* parseCSI: the parameter bytes read so far
    keys,              \* history: the bytes of the sequence being decoded
    template,          \* the string passed to Template
    args,              \* the arguments passed to Template
    renderable,        \* the Renderable returned by Template, if any
    mounted,           \* Render was called
    shown,             \* history: the holes that drew an argument, and its text
    layout,            \* the layout tree Measure is called on
    constraint,        \* the constraint Measure is called with
    measured,          \* the number of calls of Measure
    size,              \* the size the last call of Measure returned
    prior,             \* history: layout and size before the last call of Measure
    styles,            \* the three styles mergeStyles is called with
    merged,            \* the styles mergeStyles returned, if it was called
    buffer,            \* a Buffer of its own
    bufOps,            \* the number of calls of Set and Resize on it
    bufBefore,         \* history: the Buffer before the last call
    bufCall            \* history: the last call and its arguments

sigVars == <<value, subscribers, cvalue, dirty, dependencies, disposed, created,
             activeSubscriber, batchDepth, batchQueue, stack, panicked>>

histVars == <<curOp, runs, budget, hit, readSet, everRead, atCall, writes, glitch, lastGet,
              latest, evals, reused, innerExit, queued, flushed>>

scrVars == <<Front, Back, mu, supportsItalic, supportsStrike, closed, out, prevFront,
             drawn, painters, fresh, mixed>>

\* the inputs and results of the calls examined one at a time
tmplVars == <<template, args, renderable, mounted, shown>>

layoutVars == <<layout, constraint, measured, size, prior>>

styleVars == <<styles, merged>>

bufVars == <<buffer, bufOps, bufBefore, bufCall>>

pureVars == <<tmplVars, layoutVars, styleVars, bufVars>>

termVars == <<termSize, cursorShown, rawMode, oldState, restored, inputChan, rawCh, typed,
              pump, pending, listeners, got, sent, early, params, keys, pureVars>>

vars == <<cfg, live, sigVars, histVars, scrVars, termVars>>

\* the history variables of the reactive graph are kept for the one-thread
\* applications only
Traced == cfg \in Configs \cup {"peek", "slices", "selfset"}

(***************************************************************************)
(* Call stack                                                              *)
(***************************************************************************)
\* One activation: a user function being interpreted ("main", "batch",
\* "effect", "computed", "draw"), a notification loop ("notify", "flush") or a
\* critical section of a Screen method ("locked").  acc is the sum of the values
\* read (derived function) or the last value read (effect, draw callback).
Frame(kind, owner, ops, prev, todo) ==
    [kind |-> kind, owner |-> owner, ops |-> ops, acc |-> 0, reads |-> <<>>,
     prev |-> prev, todo |-> todo]

Top(t) == stack[t][Len(stack[t])]

SetTop(stk, f) == [stk EXCEPT ![Len(stk)] = f]

Pop(stk) == SubSeq(stk, 1, Len(stk) - 1)

Running(t) == ~panicked /\ stack[t] # <<>>

AtOp(t, names) ==
    /\ Running(t)
    /\ Top(t).kind \in {"main", "batch", "effect", "computed", "draw"}
    /\ Top(t).ops # <<>>
    /\ Head(Top(t).ops).op \in names

AtEnd(t, kind) ==
    /\ Running(t)
    /\ Top(t).kind = kind
    /\ Top(t).ops = <<>>

\* the caller's program after the call it was waiting for returned v
Cont(ops, v) ==
    IF Head(ops).op = "if"
    THEN (IF v # 0 THEN Head(ops).th ELSE Head(ops).el) \o Tail(ops)
    ELSE Tail(ops)

\* the value v of cell c is returned to frame f
DeliverTo(f, c, v) ==
    [f EXCEPT !.ops = Cont(f.ops, v),
              !.acc = IF f.kind = "computed" THEN @ + v
                      ELSE IF f.kind \in {"effect", "draw"} THEN v ELSE @,
              !.reads = IF f.kind = "effect" THEN Append(@, <<c, v>>) ELSE @]

(***************************************************************************)
(* What the functions of the derived cells compute on the current values   *)
(***************************************************************************)
RECURSIVE EvalCell(_), EvalOps(_)

EvalCell(c) ==
    IF c \in StateCells THEN value[c] ELSE CompK(c) + EvalOps(CompProg(cfg, c))

EvalOps(ops) ==
    IF ops = <<>> THEN 0
    ELSE LET v == EvalCell(Head(ops).c)
         IN  v + EvalOps(Cont(ops, v))

(***************************************************************************)
(* signal.go                                                               *)
(***************************************************************************)
\* a thread stopped inside Computed.Get of c with c.mu locked
MuHeld(c) ==
    \E u \in Threads : \E i \in 1..Len(stack[u]) :
        stack[u][i].kind = "locked" /\ stack[u][i].owner = c

\* Signal.Get / Computed.Get: current := activeSubscriber
TrackedSubscriber == activeSubscriber

\* Effect.addDependency writes e.dependencies, which Dispose set to nil
AddDependencyPanics(cur) == cur \in Effects /\ disposed[cur]

\* current.addDependency(c); c.subscribe(current)
Subscribe(c, cur) ==
    IF cur = Nil THEN subscribers ELSE [subscribers EXCEPT ![c] = @ \cup {cur}]

\* variant: the subscriber's side of the link is not recorded
AddDependency_Dropped(c, cur) == dependencies

AddDependency(c, cur) ==
    IF cur = Nil THEN dependencies ELSE [dependencies EXCEPT ![cur] = @ \cup {c}]

\* variant: the links to the previous dependencies are kept
UnsubscribeAll_Kept(subs, ds, x) == subs

\* dep.unsubscribe(x) for every dep in ds
UnsubscribeAll(subs, ds, x) ==
    [c \in Cells |-> IF c \in ds THEN subs[c] \ {x} ELSE subs[c]]

\* history: a Get returned v for cell c to frame f
Observe(f, c, v) ==
    /\ lastGet' = IF f.kind \in {"main", "batch"}
                  THEN [c |-> c, v |-> v, want |-> EvalCell(c)]
                  ELSE lastGet
    /\ glitch' = (glitch \/ (f.kind = "effect" /\ c \in Derived /\ v # EvalCell(c)))

\* Signal.Get
SignalGet(t) ==
    /\ AtOp(t, {"get", "if"})
    /\ Head(Top(t).ops).c \in StateCells
    /\ TrackedSubscriber \in Derived => ~MuHeld(TrackedSubscriber)
    /\ LET c == Head(Top(t).ops).c
           cur == TrackedSubscriber
       IN  IF AddDependencyPanics(cur)
           THEN /\ panicked' = TRUE
                /\ UNCHANGED <<subscribers, dependencies, stack, lastGet, glitch>>
           ELSE /\ subscribers' = Subscribe(c, cur)
                /\ dependencies' = AddDependency(c, cur)
                /\ stack' = [stack EXCEPT ![t] = SetTop(@, DeliverTo(Top(t), c, value[c]))]
                /\ Observe(Top(t), c, value[c])
                /\ UNCHANGED panicked
    /\ UNCHANGED scrVars
    /\ UNCHANGED termVars
    /\ UNCHANGED <<cfg, live, value, cvalue, dirty, disposed, created, activeSubscriber,
                   batchDepth, batchQueue, curOp, runs, budget, hit, readSet, everRead,
                   atCall, writes, evals, reused, innerExit, queued, flushed, latest>>

\* variant: Peek registers the active subscriber as Get does
PeekSubscribe_AsGet(c, cur) == Subscribe(c, cur)

\* Signal.Peek takes the read lock and touches no subscriber table
PeekSubscribe(c, cur) == subscribers

\* Signal.Peek
SignalPeek(t) ==
    /\ AtOp(t, {"peek"})
    /\ Head(Top(t).ops).c \in StateCells
    /\ LET c == Head(Top(t).ops).c
       IN  /\ subscribers' = PeekSubscribe(c, TrackedSubscriber)
           /\ stack' = [stack EXCEPT ![t] = SetTop(@, DeliverTo(Top(t), c, value[c]))]
           /\ Observe(Top(t), c, value[c])
    /\ UNCHANGED scrVars
    /\ UNCHANGED termVars
    /\ UNCHANGED <<cfg, live, value, cvalue, dirty, dependencies, disposed, created,
                   activeSubscriber, batchDepth, batchQueue, panicked, curOp, runs, budget,
                   hit, readSet, everRead, atCall, writes, evals, reused, innerExit,
                   queued, flushed, latest>>

\* variant: Get calls c.fn whether or not the cell is dirty
ComputedIsDirty_Always(c) == TRUE

\* Computed.Get: the cached value is returned unless c.dirty
ComputedIsDirty(c) == dirty[c]

\* the derived cells that read cell c, directly or through another derived
\* cell, in their last evaluation (Computed.dependencies, filled by Get)
DependsOn(c) ==
    {d \in Derived : \/ c \in dependencies[d]
                     \/ \E m \in Derived : c \in dependencies[m] /\ m \in dependencies[d]}

\* Computed.Get up to the call of c.fn (dirty) or to the return (clean).  The
\* loop "for dep := range c.dependencies { dep.unsubscribe(c) }" runs with c.mu
\* locked: when c is among its own dependencies, c.unsubscribe(c) locks c.mu
\* again and the thread stops there for ever, after any of the other
\* dependencies were unsubscribed
ComputedGet(t) ==
    /\ AtOp(t, {"get", "if"})
    /\ Head(Top(t).ops).c \in Derived
    /\ ~MuHeld(Head(Top(t).ops).c)
    /\ LET c == Head(Top(t).ops).c
           cur == TrackedSubscriber
           subs1 == Subscribe(c, cur)
           deps1 == AddDependency(c, cur)
       IN  IF AddDependencyPanics(cur)
           THEN /\ panicked' = TRUE
                /\ UNCHANGED <<subscribers, dependencies, stack, activeSubscriber,
                               lastGet, glitch, evals, reused>>
           ELSE IF ComputedIsDirty(c) /\ c \in deps1[c]
           THEN /\ \E ds \in SUBSET (deps1[c] \ {c}) :
                      subscribers' = UnsubscribeAll(subs1, ds, c)
                /\ dependencies' = deps1
                /\ stack' = [stack EXCEPT ![t] =
                       Append(@, Frame("locked", c, <<>>, Nil, {}))]
                /\ UNCHANGED <<panicked, activeSubscriber, lastGet, glitch, evals, reused>>
           ELSE IF ComputedIsDirty(c)
           THEN /\ subscribers' = UnsubscribeAll(subs1, deps1[c], c)
                /\ evals' = [evals EXCEPT ![c] = IF @ < 2 THEN @ + 1 ELSE @]
                /\ UNCHANGED reused
                /\ dependencies' = [deps1 EXCEPT ![c] = {}]
                /\ activeSubscriber' = c
                /\ stack' = [stack EXCEPT ![t] =
                       Append(@, Frame("computed", c, CompProg(cfg, c), activeSubscriber, {}))]
                /\ UNCHANGED <<panicked, lastGet, glitch>>
           ELSE /\ subscribers' = subs1
                /\ dependencies' = deps1
                /\ stack' = [stack EXCEPT ![t] = SetTop(@, DeliverTo(Top(t), c, cvalue[c]))]
                /\ Observe(Top(t), c, cvalue[c])
                /\ reused' = reused \cup {c}
                /\ UNCHANGED <<panicked, activeSubscriber, evals>>
    /\ UNCHANGED scrVars
    /\ UNCHANGED termVars
    /\ UNCHANGED <<cfg, live, value, cvalue, dirty, disposed, created,
                   batchDepth, batchQueue, curOp, runs, budget, hit, readSet, everRead,
                   atCall, writes, innerExit, queued, flushed, latest>>

\* Computed.Get after c.fn returned: store, clear dirty, restore, return c.value
ComputedDone(t) ==
    /\ AtEnd(t, "computed")
    /\ ~MuHeld(Top(t).owner)
    /\ LET f == Top(t)
           c == f.owner
           val == CompK(c) + f.acc
           caller == Pop(stack[t])[Len(stack[t]) - 1]
       IN  /\ cvalue' = [cvalue EXCEPT ![c] = val]
           /\ dirty' = [dirty EXCEPT ![c] = FALSE]
           /\ activeSubscriber' = f.prev
           /\ stack' = [stack EXCEPT ![t] = SetTop(Pop(@), DeliverTo(caller, c, val))]
           /\ Observe(caller, c, val)
    /\ UNCHANGED scrVars
    /\ UNCHANGED termVars
    /\ UNCHANGED <<cfg, live, value, subscribers, dependencies, disposed, created,
                   batchDepth, batchQueue, panicked, curOp, runs, budget, hit, readSet, everRead,
                   atCall, writes, evals, reused, innerExit, queued, flushed, latest>>

\* variant: Run does not look at the disposed flag
EffectIsDisposed_Ignored(e) == FALSE

\* Effect.Run: a disposed effect returns at once
EffectIsDisposed(e) == disposed[e]

\* Effect.Run up to the call of e.fn, called with t's stack being stk
EffectRun(t, e, stk) ==
    IF EffectIsDisposed(e)
    THEN /\ stack' = [stack EXCEPT ![t] = stk]
         /\ UNCHANGED <<subscribers, dependencies, activeSubscriber, runs>>
    ELSE /\ subscribers' = UnsubscribeAll(subscribers, dependencies[e], e)
         /\ dependencies' = [dependencies EXCEPT ![e] = {}]
         /\ activeSubscriber' = e
         /\ stack' = [stack EXCEPT ![t] =
                Append(stk, Frame("effect", e, EffProg(cfg, e), activeSubscriber, {}))]
         /\ runs' = IF Traced THEN [runs EXCEPT ![e] = @ + 1] ELSE runs

\* the cells a finished run read with Get
ReadCells(f) == {f.reads[i][1] : i \in 1..Len(f.reads)}

\* variant: Run leaves itself in the slot
RestoreSubscriber_Kept(prev) == activeSubscriber

\* Effect.Run: activeSubscriber = prev
RestoreSubscriber(prev) == prev

\* Effect.Run after e.fn returned: restore the active subscriber
EffectDone(t) ==
    /\ AtEnd(t, "effect")
    /\ activeSubscriber' = RestoreSubscriber(Top(t).prev)
    /\ stack' = [stack EXCEPT ![t] = Pop(@)]
    /\ readSet' = IF Traced THEN [readSet EXCEPT ![Top(t).owner] = ReadCells(Top(t))]
                  ELSE readSet
    /\ everRead' = IF Traced THEN [everRead EXCEPT ![Top(t).owner] = @ \cup ReadCells(Top(t))]
                   ELSE everRead
    /\ UNCHANGED scrVars
    /\ UNCHANGED termVars
    /\ UNCHANGED <<cfg, live, value, subscribers, cvalue, dirty, dependencies, disposed,
                   created, batchDepth, batchQueue, panicked, curOp, runs, budget, hit,
                   atCall, writes, evals, reused, innerExit, queued, flushed, glitch, lastGet, latest>>

\* variant: the effect is re-run at once even inside a batch
BatchActive_Never == FALSE

\* Effect.onDependencyUpdated: if batchDepth > 0 the effect is queued
BatchActive == batchDepth > 0

\* variant: the derived cell is not invalidated
MarkDirty_Skipped(c) == dirty

\* Computed.onDependencyUpdated: c.dirty = true
MarkDirty(c) == [dirty EXCEPT ![c] = TRUE]

\* sub.onDependencyUpdated() for an Effect or a Computed
OnDependencyUpdated(t, sub, stk) ==
    IF sub \in Effects
    THEN IF BatchActive
         THEN /\ batchQueue' = batchQueue \cup {sub}
              /\ stack' = [stack EXCEPT ![t] = stk]
              /\ UNCHANGED <<subscribers, dependencies, activeSubscriber, dirty, runs>>
         ELSE /\ EffectRun(t, sub, stk)
              /\ UNCHANGED <<batchQueue, dirty>>
    ELSE IF dirty[sub]
         THEN /\ stack' = [stack EXCEPT ![t] = stk]
              /\ UNCHANGED <<subscribers, dependencies, activeSubscriber, dirty, runs,
                             batchQueue>>
         ELSE /\ dirty' = MarkDirty(sub)
              /\ stack' = [stack EXCEPT ![t] =
                     Append(stk, Frame("notify", sub, <<>>, Nil, subscribers[sub]))]
              /\ UNCHANGED <<subscribers, dependencies, activeSubscriber, runs, batchQueue>>

\* variant: Set does not compare the new value with the current one
SetIsEqual_Never(s, v) == FALSE

\* reflect.DeepEqual: slices are equal when their elements are, whatever their
\* backing arrays; integers when they are the same
DeepEqual(x, y) == IF cfg = "slices" THEN Elems(x) = Elems(y) ELSE x = y

\* Signal.Set: reflect.DeepEqual(s.value, val)
SetIsEqual(s, v) == DeepEqual(value[s], v)

\* variant: Set notifies without storing the value
SetValue_Dropped(s, v) == value

\* Signal.Set: s.value = val
SetValue(s, v) == [value EXCEPT ![s] = v]

\* Signal.Set up to the notification loop
SignalSet(t) ==
    /\ AtOp(t, {"set"})
    /\ LET o == Head(Top(t).ops)
           rest == SetTop(stack[t], [Top(t) EXCEPT !.ops = Tail(@)])
       IN  /\ latest' = [latest EXCEPT ![o.c] = o.v]
           /\ IF SetIsEqual(o.c, o.v)
              THEN /\ stack' = [stack EXCEPT ![t] = rest]
                   /\ UNCHANGED <<value, hit, writes, evals, reused>>
              ELSE /\ value' = SetValue(o.c, o.v)
                   /\ stack' = [stack EXCEPT ![t] =
                          Append(rest, Frame("notify", o.c, <<>>, Nil, subscribers[o.c]))]
                   /\ hit' = IF Traced THEN hit \cup (subscribers[o.c] \cap Effects) ELSE hit
                   /\ writes' = IF Traced THEN writes + 1 ELSE writes
                   /\ evals' = [d \in Derived |-> IF d \in DependsOn(o.c) THEN 0 ELSE evals[d]]
                   /\ reused' = reused \ DependsOn(o.c)
    /\ UNCHANGED scrVars
    /\ UNCHANGED termVars
    /\ UNCHANGED <<cfg, live, subscribers, cvalue, dirty, dependencies, disposed, created,
                   activeSubscriber, batchDepth, batchQueue, panicked, curOp, runs,
                   budget, readSet, everRead, atCall, glitch, lastGet, innerExit, queued, flushed>>

\* x occurs in the sequence q
InSeq(x, q) == \E i \in 1..Len(q) : q[i] = x

\* the order of the queue and of its flush is recorded for the application
\* "queue" only
OrderKept == cfg = "queue"

\* one iteration of "for _, sub := range subs { sub.onDependencyUpdated() }" in
\* Signal.Set and Computed.onDependencyUpdated, or of "for sub := range queue" in
\* Batch; the snapshot was filled by ranging over a map, so in any order
Notify(t) ==
    /\ Running(t)
    /\ Top(t).kind \in {"notify", "flush"}
    /\ \E sub \in Top(t).todo :
          /\ sub \in Derived => ~MuHeld(sub)
          /\ OnDependencyUpdated(t, sub, SetTop(stack[t], [Top(t) EXCEPT !.todo = @ \ {sub}]))
          /\ queued' = IF OrderKept /\ sub \in Effects /\ BatchActive /\ ~InSeq(sub, queued)
                       THEN Append(queued, sub) ELSE queued
          /\ flushed' = IF OrderKept /\ Top(t).kind = "flush"
                        THEN Append(flushed, sub) ELSE flushed
    /\ UNCHANGED scrVars
    /\ UNCHANGED termVars
    /\ UNCHANGED <<cfg, live, value, cvalue, disposed, created, batchDepth, panicked,
                   curOp, budget, hit, readSet, everRead, atCall, writes, evals, reused, innerExit,
                   glitch, lastGet, latest>>

\* the notification loop ends
NotifyDone(t) ==
    /\ Running(t)
    /\ Top(t).kind \in {"notify", "flush"}
    /\ Top(t).todo = {}
    /\ stack' = [stack EXCEPT ![t] = Pop(@)]
    /\ UNCHANGED scrVars
    /\ UNCHANGED termVars
    /\ UNCHANGED <<cfg, live, value, subscribers, cvalue, dirty, dependencies, disposed,
                   created, activeSubscriber, batchDepth, batchQueue, panicked, histVars>>

\* Batch: batchDepth++ and the call of fn
BatchEnter(t) ==
    /\ AtOp(t, {"batch"})
    /\ batchDepth' = batchDepth + 1
    /\ stack' = [stack EXCEPT ![t] =
           Append(SetTop(@, [Top(t) EXCEPT !.ops = Tail(@)]),
                  Frame("batch", Top(t).owner, Head(Top(t).ops).th, Nil, {}))]
    /\ UNCHANGED scrVars
    /\ UNCHANGED termVars
    /\ UNCHANGED <<cfg, live, value, subscribers, cvalue, dirty, dependencies, disposed,
                   created, activeSubscriber, batchQueue, panicked, histVars>>

\* variant: the queue is flushed whenever a Batch returns
BatchFlushes_AtAnyDepth(depth) == batchQueue # {}

\* Batch: the deferred function flushes when batchDepth == 0 && len(batchQueue) > 0
BatchFlushes(depth) == depth = 0 /\ batchQueue # {}

\* Batch: the deferred function, up to the loop over the queue
BatchExit(t) ==
    /\ AtEnd(t, "batch")
    /\ batchDepth' = batchDepth - 1
    /\ IF BatchFlushes(batchDepth - 1)
       THEN /\ batchQueue' = {}
            /\ stack' = [stack EXCEPT ![t] =
                   SetTop(@, Frame("flush", Nil, <<>>, Nil, batchQueue))]
       ELSE /\ stack' = [stack EXCEPT ![t] = Pop(@)]
            /\ UNCHANGED batchQueue
    /\ innerExit' = (innerExit \/ (Traced /\ batchDepth > 1 /\ batchQueue # {}))
    /\ UNCHANGED scrVars
    /\ UNCHANGED termVars
    /\ UNCHANGED <<cfg, live, value, subscribers, cvalue, dirty, dependencies, disposed,
                   created, activeSubscriber, panicked, curOp, runs, budget, hit, readSet,
                   everRead, atCall, writes, glitch, lastGet, latest, evals, reused, queued,
                   flushed>>

\* Effect.Dispose
EffectDispose(t) ==
    /\ AtOp(t, {"dispose"})
    /\ LET e == Head(Top(t).ops).c
       IN  IF disposed[e]
           THEN UNCHANGED <<disposed, subscribers, dependencies>>
           ELSE /\ disposed' = [disposed EXCEPT ![e] = TRUE]
                /\ subscribers' = UnsubscribeAll(subscribers, dependencies[e], e)
                /\ dependencies' = [dependencies EXCEPT ![e] = {}]
    /\ stack' = [stack EXCEPT ![t] = SetTop(@, [Top(t) EXCEPT !.ops = Tail(@)])]
    /\ UNCHANGED scrVars
    /\ UNCHANGED termVars
    /\ UNCHANGED <<cfg, live, value, cvalue, dirty, created, activeSubscriber, batchDepth,
                   batchQueue, panicked, histVars>>

\* CreateEffect
CreateEffect(t) ==
    /\ AtOp(t, {"create"})
    /\ created' = created \cup {Head(Top(t).ops).c}
    /\ EffectRun(t, Head(Top(t).ops).c, SetTop(stack[t], [Top(t) EXCEPT !.ops = Tail(@)]))
    /\ UNCHANGED scrVars
    /\ UNCHANGED termVars
    /\ UNCHANGED <<cfg, live, value, cvalue, dirty, disposed, batchDepth, batchQueue,
                   panicked, curOp, budget, hit, readSet, everRead, atCall, writes,
                   evals, reused, innerExit, queued, flushed,
                   glitch, lastGet, latest>>

(***************************************************************************)
(* style.go, screen.go: cells, buffers                                     *)
(***************************************************************************)
\* the zero basement.Style; Color and BgColor hold the number n of the string
\* "\x1b[<n>m" they store, 0 for the empty string
DefaultStyle ==
    [Bold |-> FALSE, Dim |-> FALSE, Italic |-> FALSE, Underline |-> FALSE,
     Strike |-> FALSE, Reverse |-> FALSE, Blink |-> FALSE, Color |-> 0, BgColor |-> 0]

\* GetColorCode("red") = "\x1b[31m"
RedCode == 31

\* parseInline: the styles of **x**, *x*, ~~x~~, #red(x) and !#red(x)
StyleBold == [DefaultStyle EXCEPT !.Bold = TRUE]

StyleItalic == [DefaultStyle EXCEPT !.Italic = TRUE]

StyleStrike == [DefaultStyle EXCEPT !.Strike = TRUE]

StyleColor == [DefaultStyle EXCEPT !.Color = RedCode]

StyleBgColor == [DefaultStyle EXCEPT !.BgColor = RedCode]

MkCell(ch, st) == [Char |-> ch, Style |-> st]

\* Cell{}
ZeroCell == MkCell(0, DefaultStyle)

\* Cell{Char: ' '}
BlankCell == MkCell(32, DefaultStyle)

NewBuffer(w, h) == [Width |-> w, Height |-> h, Cells |-> [i \in 1..(w * h) |-> ZeroCell]]

\* Buffer.Set
BufferSet(b, x, y, ch, st) ==
    IF x < 0 \/ x >= b.Width \/ y < 0 \/ y >= b.Height
    THEN b
    ELSE [b EXCEPT !.Cells[y * b.Width + x + 1] = MkCell(ch, st)]

\* Buffer.Get
BufferGet(b, x, y) ==
    IF x < 0 \/ x >= b.Width \/ y < 0 \/ y >= b.Height
    THEN ZeroCell
    ELSE b.Cells[y * b.Width + x + 1]

\* variant: the cells are copied in the order of the old slice
BufferResize_Flat(b, width, height) ==
    [Width |-> width, Height |-> height,
     Cells |-> [i \in 1..(width * height) |->
                   IF i <= Len(b.Cells) THEN b.Cells[i] ELSE ZeroCell]]

\* Buffer.Resize
BufferResize(b, width, height) ==
    LET minH == IF b.Height < height THEN b.Height ELSE height
        minW == IF b.Width < width THEN b.Width ELSE width
    IN [Width |-> width, Height |-> height,
        Cells |-> [i \in 1..(width * height) |->
                      LET x == (i - 1) % width
                          y == (i - 1) \div width
                      IN IF y < minH /\ x < minW THEN b.Cells[y * b.Width + x + 1]
                         ELSE ZeroCell]]

\* the call of Set or Resize, and none
BufCall(op, x, y) == [op |-> op, x |-> x, y |-> y]

NoBufCall == BufCall("none", 0, 0)

\* b.Set(x, y, 'x', Style{Bold: true}) at any coordinates on and around the grid
BufferSetCall ==
    /\ cfg = "buffer"
    /\ bufOps < MaxBufOps
    /\ \E x \in -1..ScreenW, y \in -1..ScreenH :
          /\ buffer' = BufferSet(buffer, x, y, 120, StyleBold)
          /\ bufCall' = BufCall("Set", x, y)
    /\ bufBefore' = buffer
    /\ bufOps' = bufOps + 1
    /\ UNCHANGED <<cfg, live, sigVars, histVars, scrVars, termSize, cursorShown, rawMode,
                   oldState, restored, inputChan, rawCh, typed, pump, pending, listeners,
                   got, sent, early, params, keys, tmplVars, layoutVars, styleVars>>

\* b.Resize(width, height)
BufferResizeCall ==
    /\ cfg = "buffer"
    /\ bufOps < MaxBufOps
    /\ \E width \in 0..ScreenW, height \in 0..ScreenH :
          /\ buffer' = BufferResize(buffer, width, height)
          /\ bufCall' = BufCall("Resize", width, height)
    /\ bufBefore' = buffer
    /\ bufOps' = bufOps + 1
    /\ UNCHANGED <<cfg, live, sigVars, histVars, scrVars, termSize, cursorShown, rawMode,
                   oldState, restored, inputChan, rawCh, typed, pump, pending, listeners,
                   got, sent, early, params, keys, tmplVars, layoutVars, styleVars>>

\* variant: the back buffer is left as the last frame drew it
ClearCells_Kept(b) == b

\* Screen.Clear / Screen.Frame: every back cell becomes Cell{Char: ' '}
ClearCells(b) == [b EXCEPT !.Cells = [i \in 1..Len(b.Cells) |-> BlankCell]]

\* drawTextUnlocked: the loop over the runes of text, col being the running column
RECURSIVE DrawRunes(_, _, _, _, _, _)

DrawRunes(b, x, col, y, text, st) ==
    IF text = <<>> THEN b
    ELSE IF Head(text) = 10
         THEN DrawRunes(b, x, x, y + 1, Tail(text), st)
         ELSE DrawRunes(BufferSet(b, col, y, Head(text), st), x, col + 1, y, Tail(text), st)

drawTextUnlocked(b, x, y, text, st) == DrawRunes(b, x, x, y, text, st)

\* history: the cells (numbers in Cells) on which drawTextUnlocked calls
\* Back.Set with coordinates inside the buffer
RECURSIVE WrittenRunes(_, _, _, _, _)

WrittenRunes(b, x, col, y, text) ==
    IF text = <<>> THEN {}
    ELSE IF Head(text) = 10
         THEN WrittenRunes(b, x, x, y + 1, Tail(text))
         ELSE (IF col < 0 \/ col >= b.Width \/ y < 0 \/ y >= b.Height
               THEN {} ELSE {y * b.Width + col + 1})
              \cup WrittenRunes(b, x, col + 1, y, Tail(text))

\* history: the draw callback in frame f wrote the cells ws
Wrote(f, ws) == [f EXCEPT !.todo = @ \cup ws]

(***************************************************************************)
(* screen.go: the render pass                                              *)
(***************************************************************************)
\* the escape sequences and runes written to Screen.out
Cup(row, col) == [t |-> "cup", a |-> row, b |-> col]

Sgr(n) == [t |-> "sgr", a |-> n, b |-> 0]

Chr(ch) == [t |-> "chr", a |-> ch, b |-> 0]

\* writeStyle
writeStyle(st) ==
    (IF st.Bold THEN <<Sgr(1)>> ELSE <<>>)
    \o (IF st.Dim THEN <<Sgr(2)>> ELSE <<>>)
    \o (IF st.Italic THEN (IF supportsItalic THEN <<Sgr(3)>> ELSE <<Sgr(2)>>) ELSE <<>>)
    \o (IF st.Underline THEN <<Sgr(4)>> ELSE <<>>)
    \o (IF st.Strike /\ supportsStrike THEN <<Sgr(9)>> ELSE <<>>)
    \o (IF st.Reverse THEN <<Sgr(7)>> ELSE <<>>)
    \o (IF st.Blink THEN <<Sgr(5)>> ELSE <<>>)
    \o (IF st.Color # 0 THEN <<Sgr(st.Color)>> ELSE <<>>)
    \o (IF st.BgColor # 0 THEN <<Sgr(st.BgColor)>> ELSE <<>>)

\* renderUnlocked: the locals before the loops
RenderStart(front) ==
    [curX |-> -1, curY |-> -1, lastStyle |-> DefaultStyle, styleActive |-> FALSE,
     out |-> <<>>, front |-> front]

\* variant: every cell is drawn, changed or not
CellChanged_Always(backCell, frontCell) == TRUE

\* renderUnlocked: "Diffing: Only draw if changed"
CellChanged(backCell, frontCell) == backCell # frontCell

\* renderUnlocked: the body of the inner loop, at cell (x, y)
RenderCell(r, back, x, y) ==
    LET idx == y * back.Width + x + 1
        backCell == back.Cells[idx]
        frontCell == r.front.Cells[idx]
        moved == r.curX # x \/ r.curY # y
        restyle == ~r.styleActive \/ backCell.Style # r.lastStyle
    IN  IF ~CellChanged(backCell, frontCell) THEN r
        ELSE [curX |-> x + 1,
              curY |-> y,
              lastStyle |-> backCell.Style,
              styleActive |-> TRUE,
              out |-> r.out
                      \o (IF moved THEN <<Cup(y + 1, x + 1)>> ELSE <<>>)
                      \o (IF restyle THEN <<Sgr(0)>> \o writeStyle(backCell.Style) ELSE <<>>)
                      \o <<Chr(IF backCell.Char = 0 THEN 32 ELSE backCell.Char)>>,
              front |-> [r.front EXCEPT !.Cells[idx] = backCell]]

\* renderUnlocked: the loops, from cell number i (row-major) on
RECURSIVE RenderLoop(_, _, _)

RenderLoop(r, back, i) ==
    IF i >= back.Width * back.Height THEN r
    ELSE RenderLoop(RenderCell(r, back, i % back.Width, i \div back.Width), back, i + 1)

\* renderUnlocked: the new front buffer and the bytes flushed
renderUnlocked(front, back) ==
    LET r == RenderLoop(RenderStart(front), back, 0)
    IN  [front |-> r.front,
         out |-> IF r.styleActive THEN Append(r.out, Sgr(0)) ELSE r.out]

\* the mutex is free
MuFree_Assumed == TRUE

\* Screen.mu.Lock() returns only when no thread holds the mutex
MuFree == mu = Nil

\* the record of the last render pass (out, prevFront, fresh) is kept for the
\* one-thread screen applications only
PassKept == cfg \in {"screen", "term", "corners", "unmount"}

\* a render pass by thread t
RenderPass(t) ==
    LET r == renderUnlocked(Front, Back)
    IN  /\ Front' = r.front
        /\ out' = IF PassKept THEN r.out ELSE out
        /\ prevFront' = IF PassKept THEN Front ELSE prevFront
        /\ fresh' = PassKept

\* the back buffer is written: the record of the last pass is dropped
StalePass ==
    /\ fresh' = FALSE
    /\ out' = <<>>
    /\ prevFront' = IF PassKept THEN Front ELSE prevFront

\* Screen.Frame: Lock, the clear loop and the call of draw
FrameLock(t) ==
    /\ AtOp(t, {"frame"})
    /\ MuFree
    /\ mu' = t
    /\ Back' = ClearCells(Back)
    /\ drawn' = 0
    /\ painters' = {t}
    /\ StalePass
    /\ stack' = [stack EXCEPT ![t] =
           Append(SetTop(@, [Top(t) EXCEPT !.ops = Tail(@)]),
                  [Frame("draw", Top(t).owner, Head(Top(t).ops).th, Nil, {})
                       EXCEPT !.acc = Top(t).acc])]
    /\ UNCHANGED <<cfg, live, value, subscribers, cvalue, dirty, dependencies, disposed,
                   created, activeSubscriber, batchDepth, batchQueue, panicked, histVars,
                   Front, supportsItalic, supportsStrike, closed, mixed>>
    /\ UNCHANGED termVars

\* renderNode on a hole, inside draw: the resolved value is formatted with %v
\* and drawn at column x of row 0
DrawVal(t) ==
    /\ AtOp(t, {"drawval"})
    /\ Top(t).kind = "draw"
    /\ Back' = drawTextUnlocked(Back, Head(Top(t).ops).v, 0, <<48 + Top(t).acc>>, DefaultStyle)
    /\ painters' = painters \cup {t}
    /\ stack' = [stack EXCEPT ![t] =
           SetTop(@, Wrote([Top(t) EXCEPT !.ops = Tail(@)],
                           WrittenRunes(Back, Head(Top(t).ops).v, Head(Top(t).ops).v, 0,
                                        <<48 + Top(t).acc>>)))]
    /\ UNCHANGED <<cfg, live, value, subscribers, cvalue, dirty, dependencies, disposed,
                   created, activeSubscriber, batchDepth, batchQueue, panicked, histVars,
                   Front, mu, supportsItalic, supportsStrike, closed, out, prevFront,
                   drawn, fresh, mixed>>
    /\ UNCHANGED termVars

\* the texts and styles the draw calls explored use
DrawTexts == {<<88>>, <<88, 10, 89>>}

DrawStyles == {DefaultStyle, StyleBold, StyleItalic, StyleStrike, StyleColor, StyleBgColor}

\* the arguments of the DrawText calls explored
DrawArgs(g) ==
    IF g = "screen"
    THEN (-1..Back.Width) \X (-1..Back.Height) \X DrawTexts \X DrawStyles
    ELSE IF g = "corners"
    THEN {0, Back.Width - 1} \X {0, Back.Height - 1} \X DrawTexts
             \X {DefaultStyle, StyleBold}
    ELSE {<<0, 0, <<88>>, DefaultStyle>>}

\* a draw callback written by the application: one more drawTextUnlocked call
DrawCall(t) ==
    /\ AtEnd(t, "draw")
    /\ Top(t).owner = "main"
    /\ drawn < MaxDraws
    /\ drawn' = drawn + 1
    /\ \E d \in DrawArgs(cfg) :
          /\ Back' = drawTextUnlocked(Back, d[1], d[2], d[3], d[4])
          /\ stack' = [stack EXCEPT ![t] =
                 SetTop(@, Wrote(Top(t), WrittenRunes(Back, d[1], d[1], d[2], d[3])))]
    /\ painters' = painters \cup {t}
    /\ UNCHANGED <<cfg, live, value, subscribers, cvalue, dirty, dependencies, disposed,
                   created, activeSubscriber, batchDepth, batchQueue, panicked, histVars,
                   Front, mu, supportsItalic, supportsStrike, closed, out, prevFront, fresh,
                   mixed>>
    /\ UNCHANGED termVars

\* Screen.Frame: draw returned; renderUnlocked and Unlock
FrameUnlock(t) ==
    /\ AtEnd(t, "draw")
    /\ RenderPass(t)
    /\ mixed' = (mixed \/ painters # {t})
    /\ mu' = Nil
    /\ stack' = [stack EXCEPT ![t] = Pop(@)]
    /\ UNCHANGED <<cfg, live, value, subscribers, cvalue, dirty, dependencies, disposed,
                   created, activeSubscriber, batchDepth, batchQueue, panicked, histVars,
                   Back, supportsItalic, supportsStrike, closed, drawn, painters>>
    /\ UNCHANGED termVars

\* Clear, Render, DrawText, Close: s.mu.Lock()
ScreenLock(t) ==
    /\ AtOp(t, {"screen"})
    /\ MuFree
    /\ mu' = t
    /\ stack' = [stack EXCEPT ![t] =
           Append(SetTop(@, [Top(t) EXCEPT !.ops = Tail(@)]),
                  Frame("locked", Head(Top(t).ops).c, <<>>, Nil, {}))]
    /\ UNCHANGED <<cfg, live, value, subscribers, cvalue, dirty, dependencies, disposed,
                   created, activeSubscriber, batchDepth, batchQueue, panicked, histVars,
                   Front, Back, supportsItalic, supportsStrike, closed, out, prevFront,
                   drawn, painters, fresh, mixed>>
    /\ UNCHANGED termVars

\* Clear, Render, DrawText, Close: the body and the deferred Unlock
ScreenUnlock(t) ==
    /\ Running(t)
    /\ Top(t).kind = "locked"
    /\ LET m == Top(t).owner
       IN  /\ CASE m = "clear" ->
                    /\ Back' = ClearCells(Back)
                    /\ drawn' = 0
                    /\ painters' = {t}
                    /\ StalePass
                    /\ UNCHANGED <<Front, closed, panicked>>
                [] m = "drawtext" ->
                    /\ \E d \in DrawArgs(cfg) :
                          Back' = drawTextUnlocked(Back, d[1], d[2], d[3], d[4])
                    /\ drawn' = drawn + 1
                    /\ painters' = painters \cup {t}
                    /\ StalePass
                    /\ UNCHANGED <<Front, closed, panicked>>
                [] m = "render" ->
                    /\ RenderPass(t)
                    /\ UNCHANGED <<Back, drawn, painters, closed, panicked>>
                [] OTHER ->
                    /\ closed' = TRUE
                    /\ panicked' = closed
                    /\ UNCHANGED <<Front, Back, out, prevFront, drawn, painters, fresh>>
           /\ IF m = "close" /\ ~closed
              THEN /\ cursorShown' = TRUE
                   /\ rawMode' = IF oldState # Nil THEN FALSE ELSE rawMode
                   /\ restored' = (oldState # Nil)
              ELSE UNCHANGED <<cursorShown, rawMode, restored>>
    /\ mu' = Nil
    /\ stack' = [stack EXCEPT ![t] = Pop(@)]
    /\ UNCHANGED <<termSize, oldState, inputChan, rawCh, typed, pump, pending, listeners,
                   got, sent, early,
                   params, keys, pureVars>>
    /\ UNCHANGED <<cfg, live, value, subscribers, cvalue, dirty, dependencies, disposed,
                   created, activeSubscriber, batchDepth, batchQueue, histVars,
                   supportsItalic, supportsStrike, mixed>>

(***************************************************************************)
(* The terminal, NewScreen, OnKey and the input loop                       *)
(***************************************************************************)
\* the sizes the terminal takes
TermSizes == {[w |-> ScreenW, h |-> ScreenH], [w |-> ScreenW + 1, h |-> ScreenH]}

\* the bytes typed: ESC, '[' and 'A'
Bytes == {27, 91, 65}


\* variant: the mode found by enableRawMode is not kept
SavedState_Lost(ok) == Nil

\* NewScreen: s.oldState after enableRawMode succeeded (ok) or failed
SavedState(ok) == IF ok THEN "cooked" ELSE Nil

\* NewScreen, called by the main program: buffers of the terminal's size, raw
\* mode if the terminal grants it, the input loop started, the cursor hidden
NewScreen(t) ==
    /\ AtOp(t, {"newscreen"})
    /\ Front' = NewBuffer(termSize.w, termSize.h)
    /\ Back' = NewBuffer(termSize.w, termSize.h)
    /\ \E ok \in BOOLEAN :
          /\ oldState' = SavedState(ok)
          /\ rawMode' = (rawMode \/ ok)
    /\ inputChan' = "open"
    /\ pump' = "select"
    /\ cursorShown' = FALSE
    /\ stack' = [stack EXCEPT ![t] = SetTop(@, [Top(t) EXCEPT !.ops = Tail(@)])]
    /\ UNCHANGED <<cfg, live, value, subscribers, cvalue, dirty, dependencies, disposed,
                   created, activeSubscriber, batchDepth, batchQueue, panicked, histVars,
                   mu, supportsItalic, supportsStrike, closed, out, prevFront, drawn,
                   painters, fresh, mixed, termSize, restored, rawCh, typed, pending,
                   listeners, got, sent, early,
                   params, keys, pureVars>>

\* the terminal is resized; the program is not told
TermResize ==
    /\ \E sz \in TermSizes \ {termSize} : termSize' = sz
    /\ fresh' = FALSE
    /\ UNCHANGED <<cfg, live, sigVars, histVars, Front, Back, mu, supportsItalic,
                   supportsStrike, closed, out, prevFront, drawn, painters, mixed,
                   cursorShown, rawMode, oldState, restored, inputChan, rawCh, typed,
                   pump, pending, listeners, got, sent, early,
                   params, keys, pureVars>>

\* Screen.OnKey: a goroutine that ranges over s.inputChan and calls fn
OnKey(t) ==
    /\ AtOp(t, {"onkey"})
    /\ listeners' = [listeners EXCEPT ![Head(Top(t).ops).c] = "recv"]
    /\ early' = IF typed = 0 THEN early \cup {Head(Top(t).ops).c} ELSE early
    /\ stack' = [stack EXCEPT ![t] = SetTop(@, [Top(t) EXCEPT !.ops = Tail(@)])]
    /\ UNCHANGED <<cfg, live, value, subscribers, cvalue, dirty, dependencies, disposed,
                   created, activeSubscriber, batchDepth, batchQueue, panicked, histVars,
                   scrVars, termSize, cursorShown, rawMode, oldState, restored, inputChan,
                   rawCh, typed, pump, pending, got, sent, params, keys, pureVars>>

\* inputLoop, the reading goroutine: reader.ReadByte() and rawCh <- b
ReadByte ==
    /\ inputChan # Nil
    /\ typed < MaxKeys
    /\ typed' = typed + 1
    /\ \E b \in Bytes : rawCh' = Append(rawCh, b)
    /\ UNCHANGED <<cfg, live, sigVars, histVars, scrVars, termSize, cursorShown, rawMode,
                   oldState, restored, inputChan, pump, pending, listeners, got, sent,
                   early,
                   params, keys, pureVars>>

\* processChar: the event of a byte other than ESC
processChar(b) ==
    IF b <= 31
    THEN CASE b = 13 -> KeyEvent("KeyEnter", 0, "None")
           [] b = 9 -> KeyEvent("KeyTab", 0, "None")
           [] b = 8 -> KeyEvent("KeyBackspace", 0, "None")
           [] b = 3 -> KeyEvent("KeyChar", 99, "ModCtrl")
           [] OTHER -> KeyEvent("KeyChar", b + 96, "ModCtrl")
    ELSE IF b = 127 THEN KeyEvent("KeyBackspace", 0, "None")
    ELSE KeyEvent("KeyChar", b, "None")

\* the sequences of at most n elements of set B
SeqsUpTo(B, n) == UNION {[1..k -> B] : k \in 0..n}

\* indexOf that finds no byte
indexOf_Never(s, b) == 0

\* indexOf: the index (from 1) of the first byte b of s, or 0
indexOf(s, b) ==
    IF \E i \in 1..Len(s) : s[i] = b
    THEN CHOOSE i \in 1..Len(s) : s[i] = b /\ \A j \in 1..(i - 1) : s[j] # b
    ELSE 0

\* dispatchCSI, case '~': the key of the parameters up to the first ';'
TildeKey(p) ==
    LET i == indexOf(p, 59)
        key == IF i > 0 THEN SubSeq(p, 1, i - 1) ELSE p
    IN CASE key = <<49>> -> KeyEvent("KeyHome", 0, "None")
         [] key = <<50>> -> KeyEvent("KeyInsert", 0, "None")
         [] key = <<51>> -> KeyEvent("KeyDelete", 0, "None")
         [] key = <<52>> -> KeyEvent("KeyEnd", 0, "None")
         [] key = <<53>> -> KeyEvent("KeyPgUp", 0, "None")
         [] key = <<54>> -> KeyEvent("KeyPgDown", 0, "None")
         [] key = <<49, 53>> -> KeyEvent("KeyF5", 0, "None")
         [] key = <<49, 55>> -> KeyEvent("KeyF6", 0, "None")
         [] key = <<49, 56>> -> KeyEvent("KeyF7", 0, "None")
         [] key = <<49, 57>> -> KeyEvent("KeyF8", 0, "None")
         [] key = <<50, 48>> -> KeyEvent("KeyF9", 0, "None")
         [] key = <<50, 49>> -> KeyEvent("KeyF10", 0, "None")
         [] key = <<50, 51>> -> KeyEvent("KeyF11", 0, "None")
         [] key = <<50, 52>> -> KeyEvent("KeyF12", 0, "None")
         [] OTHER -> NoEvent

\* dispatchCSI: the event of parameters p and final byte b, if any
dispatchCSI(p, b) ==
    CASE b = 65 -> KeyEvent("KeyArrowUp", 0, "None")
      [] b = 66 -> KeyEvent("KeyArrowDown", 0, "None")
      [] b = 67 -> KeyEvent("KeyArrowRight", 0, "None")
      [] b = 68 -> KeyEvent("KeyArrowLeft", 0, "None")
      [] b = 72 -> KeyEvent("KeyHome", 0, "None")
      [] b = 70 -> KeyEvent("KeyEnd", 0, "None")
      [] b = 126 -> TildeKey(p)
      [] OTHER -> NoEvent

\* parseSS3: the event of byte b after ESC O, if any
parseSS3(b) ==
    CASE b = 65 -> KeyEvent("KeyArrowUp", 0, "None")
      [] b = 66 -> KeyEvent("KeyArrowDown", 0, "None")
      [] b = 67 -> KeyEvent("KeyArrowRight", 0, "None")
      [] b = 68 -> KeyEvent("KeyArrowLeft", 0, "None")
      [] b = 80 -> KeyEvent("KeyF1", 0, "None")
      [] b = 81 -> KeyEvent("KeyF2", 0, "None")
      [] b = 82 -> KeyEvent("KeyF3", 0, "None")
      [] b = 83 -> KeyEvent("KeyF4", 0, "None")
      [] b = 72 -> KeyEvent("KeyHome", 0, "None")
      [] b = 70 -> KeyEvent("KeyEnd", 0, "None")
      [] OTHER -> NoEvent

\* the loop goes on to send event ev, or back to its select when there is none
PumpSends(ev) ==
    /\ pending' = ev
    /\ pump' = IF ev = NoEvent THEN "select" ELSE "send"

\* inputLoop: case <-done: close(ch) and return
PumpExit ==
    /\ pump = "select"
    /\ closed
    /\ pump' = "exited"
    /\ inputChan' = "closed"
    /\ UNCHANGED <<cfg, live, sigVars, histVars, scrVars, termSize, cursorShown, rawMode,
                   oldState, restored, rawCh, typed, pending, listeners, got, sent, early,
                   params, keys, pureVars>>

\* inputLoop: case b := <-rawCh: processEsc up to its select, or processChar
\* up to its send
PumpByte ==
    /\ pump = "select"
    /\ rawCh # <<>>
    /\ rawCh' = Tail(rawCh)
    /\ IF Head(rawCh) = 27
       THEN pump' = "esc" /\ UNCHANGED pending
       ELSE PumpSends(processChar(Head(rawCh)))
    /\ UNCHANGED <<cfg, live, sigVars, histVars, scrVars, termSize, cursorShown, rawMode,
                   oldState, restored, inputChan, typed, listeners, got, sent, early,
                   params, keys, pureVars>>

\* processEsc: the timer fires, whether or not a byte is waiting
EscFollowed_Never == FALSE

\* processEsc: "case next, ok := <-rawCh" is ready before the 10 ms timer
EscFollowed == rawCh # <<>>

\* processEsc: the select between the next byte and the 10 ms timer
PumpEsc ==
    /\ pump = "esc"
    /\ IF EscFollowed
       THEN /\ rawCh' = Tail(rawCh)
            /\ CASE Head(rawCh) = 91 -> pump' = "csi" /\ UNCHANGED pending
                 [] Head(rawCh) = 79 -> pump' = "ss3" /\ UNCHANGED pending
                 [] OTHER -> PumpSends(KeyEvent("KeyChar", Head(rawCh), "ModAlt"))
       ELSE /\ PumpSends(KeyEvent("KeyEsc", 0, "None"))
            /\ UNCHANGED rawCh
    /\ UNCHANGED <<cfg, live, sigVars, histVars, scrVars, termSize, cursorShown, rawMode,
                   oldState, restored, inputChan, typed, listeners, got, sent, early,
                   params, keys, pureVars>>

\* variant: a sequence cut short by the timer is reported as the Esc key
TimedOutEvent_Esc == KeyEvent("KeyEsc", 0, "None")

\* parseCSI, parseSS3: "if !ok { return }" sends nothing
TimedOutEvent == NoEvent

\* parseCSI, parseSS3: readByteTimeout and what follows it
PumpSequence ==
    /\ pump \in {"csi", "ss3"}
    /\ IF rawCh # <<>>
       THEN /\ rawCh' = Tail(rawCh)
            /\ IF pump = "ss3" THEN PumpSends(parseSS3(Head(rawCh)))
               ELSE IF Head(rawCh) >= 64 /\ Head(rawCh) <= 126
               THEN PumpSends(dispatchCSI(params, Head(rawCh)))
               ELSE UNCHANGED <<pump, pending>>
            /\ params' = IF pump = "csi" /\ ~(Head(rawCh) >= 64 /\ Head(rawCh) <= 126)
                         THEN Append(params, Head(rawCh))
                         ELSE <<>>
       ELSE /\ PumpSends(TimedOutEvent)
            /\ params' = <<>>
            /\ UNCHANGED rawCh
    /\ UNCHANGED <<cfg, live, sigVars, histVars, scrVars, termSize, cursorShown, rawMode,
                   oldState, restored, inputChan, typed, listeners, got, sent, early,
                   keys, pureVars>>

\* "ch <- KeyEvent{...}" meets "for ev := range s.inputChan" of callback k,
\* which calls fn(ev)
PumpSend(k) ==
    /\ pump = "send"
    /\ listeners[k] = "recv"
    /\ listeners' = [listeners EXCEPT ![k] = "busy"]
    /\ got' = [got EXCEPT ![k] = Append(@, pending)]
    /\ sent' = Append(sent, pending)
    /\ pending' = NoEvent
    /\ pump' = "select"
    /\ UNCHANGED <<cfg, live, sigVars, histVars, scrVars, termSize, cursorShown, rawMode,
                   oldState, restored, inputChan, rawCh, typed, early,
                   params, keys, pureVars>>

\* fn(ev) returns: the goroutine of callback k receives again
CallbackReturn(k) ==
    /\ listeners[k] = "busy"
    /\ listeners' = [listeners EXCEPT ![k] = "recv"]
    /\ UNCHANGED <<cfg, live, sigVars, histVars, scrVars, termSize, cursorShown, rawMode,
                   oldState, restored, inputChan, rawCh, typed, pump, pending, got, sent,
                   early,
                   params, keys, pureVars>>

\* the range over the closed inputChan ends: the goroutine of callback k returns
ListenerEnd(k) ==
    /\ listeners[k] = "recv"
    /\ inputChan = "closed"
    /\ listeners' = [listeners EXCEPT ![k] = "done"]
    /\ UNCHANGED <<cfg, live, sigVars, histVars, scrVars, termSize, cursorShown, rawMode,
                   oldState, restored, inputChan, rawCh, typed, pump, pending, got, sent,
                   early,
                   params, keys, pureVars>>

(***************************************************************************)
(* ast.go, the parser and the template renderer                            *)
(***************************************************************************)
\* a string is the sequence of its runes; the strings used here hold no
\* backquote, underscore, tilde, tab, '+', '.', '(' or letter of a color name,
\* so that code fences, __x__, ~~x~~, numbered items and #color(x) do not occur,
\* and no "***" inside a line, on which parseInline slices token[2:1]

\* basement.Node
Node(type, content, style, children, holeID) ==
    [Type |-> type, Content |-> content, Style |-> style, Children |-> children,
     HoleID |-> holeID]

\* NewNode(typ)
NewNode(type) == Node(type, <<>>, DefaultStyle, <<>>, 0)

\* &Node{Type: NodeText, Content: text}
TextNode(text) == Node("NodeText", text, DefaultStyle, <<>>, 0)

\* string s has string t at index i (from 1)
HasAt(s, t, i) == i >= 1 /\ i + Len(t) - 1 <= Len(s) /\ SubSeq(s, i, i + Len(t) - 1) = t

\* strings.Contains
Contains(s, t) == \E i \in 1..Len(s) : HasAt(s, t, i)

\* the least number of set S, which is not empty
Least(S) == CHOOSE i \in S : \A j \in S : i <= j

\* inlineTokenRe at index i: the index after the match (%v, **x**, *x*), or 0
MatchEnd(s, i) ==
    LET bold == {j \in (i + 3)..Len(s) : HasAt(s, <<42, 42>>, j)}
        ital == {j \in (i + 2)..Len(s) : s[j] = 42}
    IN IF HasAt(s, <<37, 118>>, i) THEN i + 2
       ELSE IF HasAt(s, <<42, 42>>, i) /\ bold # {} THEN Least(bold) + 2
       ELSE IF HasAt(s, <<42>>, i) /\ ital # {} THEN Least(ital) + 1
       ELSE 0

\* parseInline: the nodes of text from index last on
RECURSIVE InlineFrom(_, _)

InlineFrom(text, last) ==
    LET starts == {i \in last..Len(text) : MatchEnd(text, i) > 0}
        start == Least(starts)
        end == MatchEnd(text, start)
        token == SubSeq(text, start, end - 1)
        before == IF start > last THEN <<TextNode(SubSeq(text, last, start - 1))>> ELSE <<>>
        node == IF token = <<37, 118>> THEN Node("NodeHole", <<>>, DefaultStyle, <<>>, -1)
                ELSE IF HasAt(token, <<42, 42>>, 1)
                THEN [NewNode("NodeStyle") EXCEPT
                          !.Style = StyleBold,
                          !.Children = InlineFrom(SubSeq(token, 3, Len(token) - 2), 1)]
                ELSE [NewNode("NodeStyle") EXCEPT
                          !.Style = StyleItalic,
                          !.Children = InlineFrom(SubSeq(token, 2, Len(token) - 1), 1)]
    IN IF starts = {}
       THEN IF last <= Len(text) THEN <<TextNode(SubSeq(text, last, Len(text)))>> ELSE <<>>
       ELSE before \o <<node>> \o InlineFrom(text, end)

parseInline(text) == InlineFrom(text, 1)

\* strings.Split(input, "\n")
RECURSIVE Lines(_)

Lines(s) ==
    IF \E i \in 1..Len(s) : s[i] = 10
    THEN LET i == Least({j \in 1..Len(s) : s[j] = 10})
         IN <<SubSeq(s, 1, i - 1)>> \o Lines(SubSeq(s, i + 1, Len(s)))
    ELSE <<s>>

\* the number of runes r at the start of s
RECURSIVE Leading(_, _)

Leading(s, r) == IF s # <<>> /\ Head(s) = r THEN 1 + Leading(Tail(s), r) ELSE 0

\* s without its first n runes
Drop(s, n) == SubSeq(s, n + 1, Len(s))

\* strings.TrimSpace
RECURSIVE TrimSpace(_)

TrimSpace(s) ==
    IF s # <<>> /\ Head(s) = 32 THEN TrimSpace(Tail(s))
    ELSE IF s # <<>> /\ s[Len(s)] = 32 THEN TrimSpace(SubSeq(s, 1, Len(s) - 1))
    ELSE s

\* "[ \t]+(.+)" on s: the text of group (.+), or <<>> when there is no match
AfterBlanks(s) ==
    LET n == Leading(s, 32)
    IN IF n = 0 THEN <<>>
       ELSE IF n < Len(s) THEN Drop(s, n)
       ELSE IF n >= 2 THEN <<32>>
       ELSE <<>>

\* listBlockRe: the text of the item, or <<>>
ListItemText(line) ==
    LET rest == Drop(line, Leading(line, 32))
    IN IF rest # <<>> /\ Head(rest) \in {42, 45} THEN AfterBlanks(Tail(rest)) ELSE <<>>

\* headerBlockRe: the level and the text of the header, or level 0
HeaderOf(line) ==
    LET n == Leading(line, 35)
        text == AfterBlanks(Drop(line, n))
    IN IF n >= 1 /\ n <= 6 /\ text # <<>> THEN [level |-> n, text |-> text]
       ELSE [level |-> 0, text |-> <<>>]

\* hrBlockRe on the trimmed line
IsRule(trimmed) ==
    /\ Len(trimmed) >= 3
    /\ \E r \in {42, 45} : \A i \in 1..Len(trimmed) : trimmed[i] = r

\* quoteBlockRe: the text of the quote, or <<>>
QuoteText(line) ==
    IF line # <<>> /\ Head(line) = 62
    THEN LET rest == Tail(line)
             n == Leading(rest, 32)
         IN IF n < Len(rest) THEN Drop(rest, n)
            ELSE IF n >= 1 THEN <<32>>
            ELSE <<>>
    ELSE <<>>

\* ParseAST: the loop over the lines; inList tells that currentList is the
\* last child of root
RECURSIVE ParseLines(_, _, _)

ParseLines(root, lines, inList) ==
    IF lines = <<>> THEN root
    ELSE LET line == Head(lines)
             trimmed == TrimSpace(line)
             item == [NewNode("NodeListItem") EXCEPT !.Children = parseInline(ListItemText(line))]
             h == HeaderOf(line)
             hstyle == IF h.level = 1 THEN [StyleBold EXCEPT !.Reverse = TRUE]
                       ELSE IF h.level = 2 THEN [StyleBold EXCEPT !.Underline = TRUE]
                       ELSE StyleBold
             add(n) == [root EXCEPT !.Children = Append(@, n)]
             still == inList /\ trimmed = <<>>
         IN IF ListItemText(line) # <<>>
            THEN IF inList
                 THEN ParseLines([root EXCEPT !.Children[Len(root.Children)].Children =
                                      Append(@, item)], Tail(lines), TRUE)
                 ELSE ParseLines(add([NewNode("NodeList") EXCEPT !.Children = <<item>>]),
                                 Tail(lines), TRUE)
            ELSE IF h.level > 0
            THEN ParseLines(add([NewNode("NodeHeader") EXCEPT
                                     !.Style = hstyle, !.Children = parseInline(h.text)]),
                            Tail(lines), FALSE)
            ELSE IF IsRule(trimmed)
            THEN ParseLines(add(NewNode("NodeHR")), Tail(lines), FALSE)
            ELSE IF QuoteText(line) # <<>>
            THEN ParseLines(add([NewNode("NodeQuote") EXCEPT
                                     !.Children = parseInline(QuoteText(line))]),
                            Tail(lines), FALSE)
            ELSE IF trimmed = <<>>
            THEN ParseLines(add(NewNode("NodeText")), Tail(lines), still)
            ELSE ParseLines(add([NewNode("NodeBlock") EXCEPT !.Children = parseInline(line)]),
                            Tail(lines), FALSE)

ParseAST(input) == ParseLines(NewNode("NodeRoot"), Lines(input), FALSE)

\* assignHoles on the children kids of a node, from count on
RECURSIVE assignHoles(_, _), AssignChildren(_, _)

AssignChildren(kids, count) ==
    IF kids = <<>> THEN [kids |-> <<>>, count |-> count]
    ELSE LET first == assignHoles(Head(kids), count)
             rest == AssignChildren(Tail(kids), first.count)
         IN [kids |-> <<first.n>> \o rest.kids, count |-> rest.count]

\* assignHoles: the node with its holes numbered, and the next number
assignHoles(n, count) ==
    LET self == IF n.Type = "NodeHole" THEN [n EXCEPT !.HoleID = count] ELSE n
        next == IF n.Type = "NodeHole" THEN count + 1 ELSE count
        r == AssignChildren(n.Children, next)
    IN [n |-> [self EXCEPT !.Children = r.kids], count |-> r.count]

NoRenderable == [Root |-> NewNode("None"), Args |-> <<>>]

\* variant: the color and background of the parent win
mergeStyles_ParentWins(parent, child) ==
    [Bold |-> parent.Bold \/ child.Bold,
     Dim |-> parent.Dim \/ child.Dim,
     Italic |-> parent.Italic \/ child.Italic,
     Underline |-> parent.Underline \/ child.Underline,
     Strike |-> parent.Strike \/ child.Strike,
     Reverse |-> parent.Reverse \/ child.Reverse,
     Blink |-> parent.Blink \/ child.Blink,
     Color |-> IF parent.Color = 0 THEN child.Color ELSE parent.Color,
     BgColor |-> IF parent.BgColor = 0 THEN child.BgColor ELSE parent.BgColor]

\* mergeStyles
mergeStyles(parent, child) ==
    [Bold |-> parent.Bold \/ child.Bold,
     Dim |-> parent.Dim \/ child.Dim,
     Italic |-> parent.Italic \/ child.Italic,
     Underline |-> parent.Underline \/ child.Underline,
     Strike |-> parent.Strike \/ child.Strike,
     Reverse |-> parent.Reverse \/ child.Reverse,
     Blink |-> parent.Blink \/ child.Blink,
     Color |-> IF child.Color = 0 THEN parent.Color ELSE child.Color,
     BgColor |-> IF child.BgColor = 0 THEN parent.BgColor ELSE child.BgColor]

\* the result of mergeStyles, before it was called
NotMerged == [done |-> FALSE, ab |-> DefaultStyle, left |-> DefaultStyle, right |-> DefaultStyle]

\* GetColorCode("green") = "\x1b[32m"
GreenCode == 32

\* the styles tried: bold or not, italic or not, no color, red or green, no
\* background or red
StylesTried ==
    {[DefaultStyle EXCEPT !.Bold = b, !.Italic = i, !.Color = c, !.BgColor = g] :
        b \in BOOLEAN, i \in BOOLEAN, c \in {0, RedCode, GreenCode}, g \in {0, RedCode}}

\* mergeStyles(a, b), mergeStyles(mergeStyles(a, b), c) and
\* mergeStyles(a, mergeStyles(b, c)) for the three styles
MergeCall ==
    /\ cfg = "merge"
    /\ ~merged.done
    /\ merged' = [done |-> TRUE,
                  ab |-> mergeStyles(styles[1], styles[2]),
                  left |-> mergeStyles(mergeStyles(styles[1], styles[2]), styles[3]),
                  right |-> mergeStyles(styles[1], mergeStyles(styles[2], styles[3]))]
    /\ UNCHANGED <<cfg, live, sigVars, histVars, scrVars, termSize, cursorShown, rawMode,
                   oldState, restored, inputChan, rawCh, typed, pump, pending, listeners,
                   got, sent, early, params, keys, tmplVars, layoutVars, styles, bufVars>>

\* containsMarkup, "#" and "__" not occurring
containsMarkup(s) == Contains(s, <<42, 42>>) \/ Contains(s, <<33>>)

\* the state of a render: the back buffer, the position returned, whether the
\* render panicked, and the holes that drew an argument
Drawing(b, x, y, failed, holes) == [b |-> b, x |-> x, y |-> y, failed |-> failed, holes |-> holes]

\* renderNode on node n at (x, y), d being the state before; RenderKids is the
\* loop over the children of a node: "line" advances x and keeps y, "merge"
\* does so with the parent's style merged into each child, "rows" advances y;
\* RenderDynamic is the loop over the blocks of a parsed argument
RECURSIVE renderNode(_, _, _, _, _), RenderKids(_, _, _, _, _, _, _), RenderDynamic(_, _, _, _, _)

RenderKids(d, kids, a, x, y, mode, pstyle) ==
    IF kids = <<>> \/ d.failed THEN [d EXCEPT !.x = x, !.y = y]
    ELSE LET child == IF mode = "merge"
                      THEN [Head(kids) EXCEPT !.Style = mergeStyles(pstyle, @)]
                      ELSE Head(kids)
             r == renderNode(d, child, a, x, y)
         IN IF mode = "rows"
            THEN RenderKids(r, Tail(kids), a, x, r.y, mode, pstyle)
            ELSE RenderKids(r, Tail(kids), a, r.x, y, mode, pstyle)

RenderDynamic(d, blocks, x, y, pstyle) ==
    IF blocks = <<>> \/ d.failed THEN [d EXCEPT !.x = x, !.y = y]
    ELSE IF Head(blocks).Type = "NodeBlock"
    THEN LET r == RenderKids(d, Head(blocks).Children, <<>>, x, y, "merge", pstyle)
         IN RenderDynamic(r, Tail(blocks), r.x, y, pstyle)
    ELSE RenderDynamic(d, Tail(blocks), x, y, pstyle)

renderNode(d, n, a, x, y) ==
    LET onScreen == y >= 0 /\ y < d.b.Height
        at(nx, ny) == [d EXCEPT !.x = nx, !.y = ny]
        put(ch, st) == IF onScreen THEN [d EXCEPT !.b = BufferSet(@, x, y, ch, st)] ELSE d
        row(r) == [r EXCEPT !.x = x, !.y = y + 1]
    IN IF d.failed \/ y >= d.b.Height THEN at(x, y)
       ELSE CASE n.Type \in {"NodeRoot", "NodeList"} ->
                     [RenderKids(d, n.Children, a, x, y, "rows", n.Style) EXCEPT !.x = x]
              [] n.Type \in {"NodeBlock", "NodeHeader"} ->
                     row(RenderKids(d, n.Children, a, x, y, "merge", n.Style))
              [] n.Type = "NodeHR" ->
                     row(IF onScreen
                         THEN [d EXCEPT !.b.Cells =
                                   [i \in 1..Len(@) |->
                                       IF (i - 1) \div d.b.Width = y
                                       THEN MkCell(9472, [DefaultStyle EXCEPT !.Dim = TRUE])
                                       ELSE @[i]]]
                         ELSE d)
              [] n.Type = "NodeQuote" ->
                     row(RenderKids(put(9474, [DefaultStyle EXCEPT !.Dim = TRUE]),
                                    n.Children, a, x + 2, y, "line", n.Style))
              [] n.Type = "NodeListItem" ->
                     row(RenderKids(put(8226, DefaultStyle), n.Children, a, x + 2, y,
                                    "line", n.Style))
              [] n.Type = "NodeText" ->
                     IF n.Content = <<>> THEN at(x, y + 1)
                     ELSE [(IF onScreen
                            THEN [d EXCEPT !.b = drawTextUnlocked(@, x, y, n.Content, n.Style)]
                            ELSE d)
                              EXCEPT !.x = x + Len(n.Content), !.y = y]
              [] n.Type = "NodeStyle" ->
                     [RenderKids(d, n.Children, a, x, y, "merge", n.Style) EXCEPT !.y = y]
              [] n.Type = "NodeHole" ->
                     IF n.HoleID < Len(a)
                     THEN IF n.HoleID < 0 THEN [d EXCEPT !.failed = TRUE]
                          ELSE LET str == a[n.HoleID + 1]
                                   seen == [d EXCEPT !.holes =
                                                Append(@, [hole |-> n.HoleID, text |-> str])]
                               IN IF containsMarkup(str)
                                  THEN RenderDynamic(seen, ParseAST(str).Children, x, y, n.Style)
                                  ELSE [(IF onScreen
                                         THEN [seen EXCEPT !.b =
                                                   drawTextUnlocked(@, x, y, str, n.Style)]
                                         ELSE seen)
                                           EXCEPT !.x = x + Len(str), !.y = y]
                     ELSE at(x, y)
              [] OTHER -> at(x, y)

\* the strings "7", "!%v" and "**7**"
Values == {<<55>>, <<33, 37, 118>>, <<42, 42, 55, 42, 42>>}

\* the templates "%v", "%v%v", "a%v", "**%v**%v", "%v*%v*", "# %v%v", "> %v%v",
\* "%v\n%v", "- %v\n- %v" and "**a**"
Templates ==
    {<<37, 118>>, <<37, 118, 37, 118>>, <<97, 37, 118>>,
     <<42, 42, 37, 118, 42, 42, 37, 118>>, <<37, 118, 42, 37, 118, 42>>,
     <<35, 32, 37, 118, 37, 118>>, <<62, 32, 37, 118, 37, 118>>,
     <<37, 118, 10, 37, 118>>, <<45, 32, 37, 118, 10, 45, 32, 37, 118>>,
     <<42, 42, 97, 42, 42>>}

\* Template(template, args...)
Template ==
    /\ cfg = "template"
    /\ renderable = NoRenderable
    /\ renderable' = [Root |-> assignHoles(ParseAST(template), 0).n, Args |-> args]
    /\ UNCHANGED <<cfg, live, sigVars, histVars, scrVars, termSize, cursorShown, rawMode,
                   oldState, restored, inputChan, rawCh, typed, pump, pending, listeners,
                   got, sent, early, params, keys, template, args, mounted, shown,
                   layoutVars, styleVars, bufVars>>

\* Render(screen, fn), fn returning the Renderable: the first run of the
\* effect, which calls screen.Frame with renderNode on the root at (0, 0); a
\* panic of renderNode leaves the mutex locked and the front buffer as it was
Render ==
    /\ renderable # NoRenderable
    /\ ~mounted
    /\ LET d == renderNode(Drawing(ClearCells(Back), 0, 0, FALSE, <<>>),
                           renderable.Root, renderable.Args, 0, 0)
       IN /\ Back' = d.b
          /\ shown' = d.holes
          /\ panicked' = d.failed
          /\ Front' = IF d.failed THEN Front ELSE renderUnlocked(Front, d.b).front
          /\ mu' = IF d.failed THEN "t1" ELSE Nil
    /\ mounted' = TRUE
    /\ UNCHANGED <<cfg, live, value, subscribers, cvalue, dirty, dependencies, disposed,
                   created, activeSubscriber, batchDepth, batchQueue, stack, histVars,
                   supportsItalic, supportsStrike, closed, out, prevFront, drawn,
                   painters, fresh, mixed, termSize, cursorShown, rawMode, oldState,
                   restored, inputChan, rawCh, typed, pump, pending, listeners, got, sent,
                   early, params, keys, template, args, renderable, layoutVars,
                   styleVars, bufVars>>

(***************************************************************************)
(* The layout engine: LayoutNode.Measure                                   *)
(***************************************************************************)
\* Size: Auto(), Fixed(n), Flex(n)
Size(type, v) == [Type |-> type, Value |-> v]

Auto == Size("SizeAuto", 0)

Fixed(n) == Size("SizeFixed", n)

Flex(n) == Size("SizeFlex", n)

\* LayoutNode: a node with children, or a wrapper (leaf) around a string; the
\* children are the list from FirstChild along Next
LayoutNode(dir, w, h, padding, border, kids) ==
    [Direction |-> dir, Width |-> w, Height |-> h, Padding |-> padding, Border |-> border,
     leaf |-> FALSE, Content |-> <<>>, Children |-> kids, computedW |-> 0, computedH |-> 0]

\* Row(children...), Col(children...), Box(child, border, padding)
Row(kids) == LayoutNode("DirRow", Auto, Auto, 0, FALSE, kids)

Col(kids) == LayoutNode("DirColumn", Auto, Auto, 0, FALSE, kids)

Box(child, border, padding) == LayoutNode("DirColumn", Auto, Auto, padding, border, <<child>>)

\* wrapChild(v) for a string v
wrapChild(v) == [Row(<<>>) EXCEPT !.leaf = TRUE, !.Content = v]

Max(a, b) == IF a >= b THEN a ELSE b

\* measureContent for a string: its longest line and its number of lines,
\* each at most the constraint
measureContent(v, maxW, maxH) ==
    LET lines == Lines(v)
        longest == IF \A i \in 1..Len(lines) : lines[i] = <<>> THEN 0
                   ELSE CHOOSE l \in {Len(lines[i]) : i \in 1..Len(lines)} :
                            \A i \in 1..Len(lines) : Len(lines[i]) <= l
    IN [w |-> IF longest > maxW THEN maxW ELSE longest,
        h |-> IF Len(lines) > maxH THEN maxH ELSE Len(lines)]

\* the size of node n along the main axis of a parent of direction dir
MainSize(dir, n) == IF dir = "DirRow" THEN n.Width ELSE n.Height

\* the computed length of child n along the main axis and across it
MainLength(dir, n) == IF dir = "DirRow" THEN n.computedW ELSE n.computedH

CrossLength(dir, n) == IF dir = "DirRow" THEN n.computedH ELSE n.computedW

\* variant: every flex child gets the whole available space
FlexShare_Whole(availableSpace, weight, totalFlexWeight) == availableSpace

\* Measure, second pass: "share = (availableSpace * weight) / totalFlexWeight"
FlexShare(availableSpace, weight, totalFlexWeight) ==
    IF totalFlexWeight > 0 THEN (availableSpace * weight) \div totalFlexWeight ELSE 0

\* the sum of f[i] over the indices i of sequence f
RECURSIVE SumSeq(_)

SumSeq(f) == IF f = <<>> THEN 0 ELSE Head(f) + SumSeq(Tail(f))

\* the element of a set of one element
The(S) == CHOOSE x \in S : TRUE

\* Measure(constraintW, constraintH) on node n: the node with the computed
\* fields of its tree set, and the size returned; FirstPass and SecondPass are
\* its two loops over the children
RECURSIVE Measure(_, _, _), FirstPass(_, _, _, _), SecondPass(_, _, _, _, _, _)

FirstPass(dir, kids, ccW, ccH) ==
    IF kids = <<>> THEN <<>>
    ELSE LET child == Head(kids)
             type == MainSize(dir, child).Type
             c == measureContent(child.Content, ccW, ccH)
             r == IF type = "SizeFixed"
                  THEN IF dir = "DirRow" THEN Measure(child, child.Width.Value, ccH)
                       ELSE Measure(child, ccW, child.Height.Value)
                  ELSE Measure(child, ccW, ccH)
             done == IF child.leaf
                     THEN [child EXCEPT !.computedW = c.w, !.computedH = c.h]
                     ELSE IF type = "SizeFlex" THEN child
                     ELSE r.n
         IN <<done>> \o FirstPass(dir, Tail(kids), ccW, ccH)

SecondPass(dir, kids, availableSpace, totalFlexWeight, ccW, ccH) ==
    IF kids = <<>> THEN <<>>
    ELSE LET child == Head(kids)
             isFlex == ~child.leaf /\ MainSize(dir, child).Type = "SizeFlex"
             share == FlexShare(availableSpace, MainSize(dir, child).Value, totalFlexWeight)
             r == IF dir = "DirRow" THEN Measure(child, share, ccH)
                  ELSE Measure(child, ccW, share)
         IN <<IF isFlex THEN r.n ELSE child>>
            \o SecondPass(dir, Tail(kids), availableSpace, totalFlexWeight, ccW, ccH)

\* variant: the computed size of a node adds to the one computed before
Measure_Accumulating(n, constraintW, constraintH) ==
    [n |-> [n EXCEPT !.computedW = @ + constraintW, !.computedH = @ + constraintH],
     w |-> n.computedW + constraintW, h |-> n.computedH + constraintH]

Measure(n, constraintW, constraintH) ==
    LET deduction == n.Padding * 2 + (IF n.Border THEN 2 ELSE 0)
        ccW == Max(constraintW - deduction, 0)
        ccH == Max(constraintH - deduction, 0)
        dir == n.Direction
        isFlex(k) == ~k.leaf /\ MainSize(dir, k).Type = "SizeFlex"
        totalFixedAndAuto(first) ==
            SumSeq([i \in 1..Len(first) |->
                       IF isFlex(first[i]) THEN 0 ELSE MainLength(dir, first[i])])
        totalFlexWeight(first) ==
            SumSeq([i \in 1..Len(first) |->
                       IF isFlex(first[i]) THEN MainSize(dir, first[i]).Value ELSE 0])
        availableSpace(first) ==
            Max((IF dir = "DirRow" THEN ccW ELSE ccH) - totalFixedAndAuto(first), 0)
        maxCross(kids) ==
            IF kids = <<>> THEN 0
            ELSE Max(0, CHOOSE m \in {CrossLength(dir, kids[i]) : i \in 1..Len(kids)} :
                            \A i \in 1..Len(kids) : CrossLength(dir, kids[i]) <= m)
        content(kids) == SumSeq([i \in 1..Len(kids) |-> MainLength(dir, kids[i])])
        finalW(kids) == IF n.Width.Type = "SizeAuto"
                        THEN (IF dir = "DirRow" THEN content(kids) ELSE maxCross(kids)) + deduction
                        ELSE constraintW
        finalH(kids) == IF n.Height.Type = "SizeAuto"
                        THEN (IF dir = "DirRow" THEN maxCross(kids) ELSE content(kids)) + deduction
                        ELSE constraintH
    IN The({[n |-> [n EXCEPT !.Children = kids, !.computedW = w, !.computedH = h],
             w |-> w, h |-> h] :
                <<kids, w, h>> \in
                    {<<k, finalW(k), finalH(k)>> :
                        k \in {SecondPass(dir, first, availableSpace(first),
                                          totalFlexWeight(first), ccW, ccH) :
                                   first \in {FirstPass(dir, n.Children, ccW, ccH)}}}})

\* WithWidth(s) for a child of a Row, WithHeight(s) for a child of a Col
WithMain(n, dir, s) == IF dir = "DirRow" THEN [n EXCEPT !.Width = s] ELSE [n EXCEPT !.Height = s]

\* the children tried in a Row or Col of direction dir: the strings "ab" and
\* "a\nb", empty rows of size Fixed(3), Flex(1) and Flex(3), a bordered Box
\* around "ab", and a Flex(1) column holding "ab" and a Flex(1) row
ChildKinds(dir) ==
    {wrapChild(<<97, 98>>), wrapChild(<<97, 10, 98>>),
     WithMain(Row(<<>>), dir, Fixed(3)),
     WithMain(Row(<<>>), dir, Flex(1)),
     WithMain(Row(<<>>), dir, Flex(3)),
     Box(wrapChild(<<97, 98>>), TRUE, 0),
     WithMain(Col(<<wrapChild(<<97, 98>>), WithMain(Row(<<>>), "DirColumn", Flex(1))>>),
              dir, Flex(1))}

\* the trees tried: a Row or a Col of one to MaxChildren children, alone or
\* in a Box with a border, with padding 1, or with both
Layouts ==
    LET inner == {Row(k) : k \in SeqsUpTo(ChildKinds("DirRow"), MaxChildren) \ {<<>>}}
                 \cup {Col(k) : k \in SeqsUpTo(ChildKinds("DirColumn"), MaxChildren) \ {<<>>}}
    IN inner \cup {Box(n, TRUE, 0) : n \in inner} \cup {Box(n, FALSE, 1) : n \in inner}
             \cup {Box(n, TRUE, 1) : n \in inner}

\* the constraints tried: 20 x 5 and 7 x 3 cells
Constraints == {[w |-> 20, h |-> 5], [w |-> 7, h |-> 3]}

NoLayout == Row(<<>>)

\* root.Measure(constraint.w, constraint.h)
MeasureLayout ==
    /\ cfg = "layout"
    /\ measured < MaxMeasures
    /\ \E r \in {Measure(layout, constraint.w, constraint.h)} :
          /\ layout' = r.n
          /\ size' = [w |-> r.w, h |-> r.h]
    /\ prior' = [layout |-> layout, size |-> size]
    /\ measured' = measured + 1
    /\ UNCHANGED <<cfg, live, sigVars, histVars, scrVars, termSize, cursorShown, rawMode,
                   oldState, restored, inputChan, rawCh, typed, pump, pending, listeners,
                   got, sent, early, params, keys, tmplVars, constraint, styleVars,
                   bufVars>>

(***************************************************************************)
(* The main program: any sequence of library calls                         *)
(***************************************************************************)
NoOp == MkOp("none", Nil, 0, <<>>, <<>>)

NoGet == [c |-> Nil, v |-> 0, want |-> 0]

NoCall ==
    [val |-> [c \in StateCells |-> 0], read |-> [e \in Effects |-> {}],
     deps |-> [x \in Subs |-> {}]]

Sets(g) == {OpSet(s, v) : s \in CfgCells(g), v \in CfgVals(g)}

\* the Screen methods the main program calls directly
ScreenOps(g) ==
    {OpScreen(m) : m \in {"clear", "render"}}
    \cup {OpScreen("drawtext") : k \in 1..(IF drawn < MaxDraws THEN 1 ELSE 0)}
    \cup {OpScreen("close") : k \in 1..(IF g = "paint" THEN 1 ELSE 0)}
    \cup {OpFrame(<<>>)}

\* an effect that disposes e1 is created when its function does not reach
\* the Dispose in its first run: e1 while a is 0, before the variable e1 is
\* assigned, and e2 after e1, while b is 0
Assigned(e) ==
    IF e = "e1" THEN value["a"] = 0 ELSE "e1" \in created /\ value["b"] = 0

\* the calls the main program can make at top level
MainOps(g) ==
    CASE g \in {"screen", "paint", "corners"} -> ScreenOps(g)
      [] g \in RenderConfigs -> Sets(g)
      [] g = "producer" -> Sets(g) \cup {OpGet(c) : c \in CfgCells(g)}
      [] g = "unmount" ->
             Sets(g) \cup {OpScreen("close") : k \in 1..(IF closed THEN 0 ELSE 1)}
      [] g = "queue" -> Sets(g) \cup {OpBatch(<<>>)}
      [] g \in {"race", "contend"} -> Sets(g) \cup {OpGet(d) : d \in CfgDerived(g)}
      [] g = "reenter" -> Sets(g) \cup {OpCreate(e) : e \in CfgEffects(g) \ created}
      [] g \in {"slices", "selfset"} ->
             Sets(g)
             \cup {OpGet(c) : c \in CfgCells(g)}
             \cup {OpCreate(e) : e \in CfgEffects(g) \ created}
      [] g \in DisposeConfigs ->
             Sets(g)
             \cup {OpGet(c) : c \in CfgCells(g)}
             \cup {OpCreate(e) : e \in {x \in CfgEffects(g) \ created : Assigned(x)}}
      [] g = "peek" ->
             Sets(g)
             \cup {OpGet(c) : c \in CfgCells(g)}
             \cup {OpPeek(c) : c \in CfgCells(g)}
             \cup {OpCreate(e) : e \in CfgEffects(g) \ created}
      [] g = "term" ->
             IF inputChan = Nil THEN {OpNewScreen}
             ELSE {OpScreen("render"), OpScreen("clear")}
                  \cup {OpScreen("drawtext") : k \in 1..(IF drawn < MaxDraws THEN 1 ELSE 0)}
                  \cup {OpScreen("close") : k \in 1..(IF closed THEN 0 ELSE 1)}
      [] g = "input" ->
             IF inputChan = Nil THEN {OpNewScreen}
             ELSE {OpScreen("close") : k \in 1..(IF closed THEN 0 ELSE 1)}
                  \cup {OpOnKey(k) : k \in {l \in Listeners : listeners[l] = "none"}}
      [] OTHER ->
             Sets(g)
             \cup {OpGet(c) : c \in CfgCells(g) \cup CfgDerived(g)}
             \cup {OpCreate(e) : e \in CfgEffects(g) \ created}
             \cup {OpDispose(e) : e \in created}
             \cup {OpBatch(<<>>)}

\* the goroutine that makes each call: in "race" t1 is the reader of the derived
\* cell and t2 the writer of its dependency; elsewhere every goroutine makes
\* every call
CalledBy(t, o) == cfg = "race" => ((o.op = "get") <=> (t = "t1"))

\* the calls the main program can make inside the function it passed to Batch
BodyOps(g) ==
    Sets(g)
    \cup {OpGet(d) : d \in CfgDerived(g)}
    \cup {OpDispose(e) : e \in created}
    \cup {OpBatch(<<>>)}

\* the main program makes its next call
Call(t) ==
    /\ ~panicked
    /\ t \in live
    /\ stack[t] = <<>>
    /\ \E o \in MainOps(cfg) :
          /\ CalledBy(t, o)
          /\ stack' = [stack EXCEPT ![t] = <<Frame("main", "main", <<o>>, Nil, {})>>]
          /\ curOp' = IF Traced THEN o ELSE NoOp
          /\ atCall' = IF Traced /\ o.op = "set"
                       THEN [val |-> value, read |-> readSet, deps |-> dependencies]
                       ELSE NoCall
    /\ runs' = [e \in Effects |-> 0]
    /\ budget' = MaxBatchOps
    /\ hit' = {}
    /\ writes' = 0
    /\ UNCHANGED <<evals, reused>>
    /\ innerExit' = FALSE
    /\ queued' = <<>>
    /\ flushed' = <<>>
    /\ glitch' = FALSE
    /\ lastGet' = NoGet
    /\ UNCHANGED latest
    /\ UNCHANGED scrVars
    /\ UNCHANGED termVars
    /\ UNCHANGED <<cfg, live, value, subscribers, cvalue, dirty, dependencies, disposed,
                   created, activeSubscriber, batchDepth, batchQueue, panicked, readSet,
                   everRead>>

\* the function the main program passed to Batch makes its next call
BodyCall(t) ==
    /\ AtEnd(t, "batch")
    /\ Top(t).owner = "main"
    /\ budget > 0
    /\ budget' = budget - 1
    /\ \E o \in BodyOps(cfg) :
          stack' = [stack EXCEPT ![t] = SetTop(@, [Top(t) EXCEPT !.ops = <<o>>])]
    /\ UNCHANGED scrVars
    /\ UNCHANGED termVars
    /\ UNCHANGED <<cfg, live, value, subscribers, cvalue, dirty, dependencies, disposed,
                   created, activeSubscriber, batchDepth, batchQueue, panicked,
                   curOp, runs, hit, readSet, everRead, atCall, writes, evals, reused,
                   innerExit, queued, flushed,
                   glitch, lastGet, latest>>

\* the call returns to the main program
Return(t) ==
    /\ AtEnd(t, "main")
    /\ stack' = [stack EXCEPT ![t] = <<>>]
    /\ curOp' = NoOp
    /\ runs' = [e \in Effects |-> 0]
    /\ hit' = {}
    /\ atCall' = NoCall
    /\ writes' = 0
    /\ UNCHANGED <<evals, reused>>
    /\ innerExit' = FALSE
    /\ queued' = <<>>
    /\ flushed' = <<>>
    /\ glitch' = FALSE
    /\ lastGet' = NoGet
    /\ UNCHANGED latest
    /\ UNCHANGED scrVars
    /\ UNCHANGED termVars
    /\ UNCHANGED <<cfg, live, value, subscribers, cvalue, dirty, dependencies, disposed,
                   created, activeSubscriber, batchDepth, batchQueue, panicked, budget,
                   readSet, everRead>>

\* New, NewComputed: empty link tables, derived cells dirty
InitLinks ==
    /\ subscribers = [c \in Cells |-> {}]
    /\ dependencies = [x \in Subs |-> {}]
    /\ created = {}

\* the cells hold 0 and nothing is active
InitRest ==
    /\ value = [c \in StateCells |-> NewValue(cfg)]
    /\ cvalue = [d \in Derived |-> 0]
    /\ dirty = [d \in Derived |-> TRUE]
    /\ disposed = [e \in Effects |-> FALSE]
    /\ activeSubscriber = Nil
    /\ batchDepth = 0
    /\ batchQueue = {}
    /\ stack = [t \in Threads |-> <<>>]
    /\ panicked = FALSE
    /\ curOp = NoOp
    /\ runs = [e \in Effects |-> 0]
    /\ budget = MaxBatchOps
    /\ hit = {}
    /\ readSet = [e \in Effects |-> {}]
    /\ everRead = [e \in Effects |-> {}]
    /\ atCall = NoCall
    /\ writes = 0
    /\ evals = [d \in Derived |-> 0]
    /\ reused = {}
    /\ innerExit = FALSE
    /\ queued = <<>>
    /\ flushed = <<>>
    /\ glitch = FALSE
    /\ lastGet = NoGet
    /\ latest = value

InitGraph == InitLinks /\ InitRest

\* Template and Render were not called
NoTemplate ==
    /\ template = <<>>
    /\ args = <<>>
    /\ renderable = NoRenderable
    /\ mounted = FALSE
    /\ shown = <<>>

\* Measure was not called
NoMeasure ==
    /\ layout = NoLayout
    /\ constraint = [w |-> 0, h |-> 0]
    /\ measured = 0
    /\ size = [w |-> 0, h |-> 0]
    /\ prior = [layout |-> NoLayout, size |-> [w |-> 0, h |-> 0]]

\* mergeStyles was not called
NoMerge ==
    /\ styles = <<DefaultStyle, DefaultStyle, DefaultStyle>>
    /\ merged = NotMerged

\* no Buffer of its own
NoBuffer ==
    /\ buffer = NewBuffer(0, 0)
    /\ bufOps = 0
    /\ bufBefore = NewBuffer(0, 0)
    /\ bufCall = NoBufCall

NoCalls == NoTemplate /\ NoMeasure /\ NoMerge /\ NoBuffer

\* no byte was typed and OnKey was not called
InitInputPump ==
    /\ rawCh = <<>>
    /\ typed = 0
    /\ pending = NoEvent
    /\ listeners = [k \in Listeners |-> "none"]
    /\ got = [k \in Listeners |-> <<>>]
    /\ sent = <<>>
    /\ early = {}
    /\ params = <<>>
    /\ keys = <<>>

\* NewScreen: the capabilities of the terminal; nothing was written yet; raw
\* mode was entered from cooked mode, the cursor is hidden, the input loop runs
InitTerm(caps) ==
    /\ InitInputPump
    /\ NoCalls
    /\ termSize = [w |-> ScreenW, h |-> ScreenH]
    /\ cursorShown = FALSE
    /\ rawMode = TRUE
    /\ oldState = "cooked"
    /\ restored = FALSE
    /\ inputChan = "open"
    /\ pump = "select"
    /\ supportsItalic \in caps
    /\ supportsStrike = supportsItalic
    /\ closed = FALSE
    /\ out = <<>>
    /\ prevFront = NewBuffer(ScreenW, ScreenH)
    /\ drawn = 0
    /\ fresh = FALSE
    /\ mixed = FALSE

\* NewScreen: two zeroed buffers of the terminal's size; italic and strike are
\* enabled together
InitScreen(caps) ==
    /\ Front = NewBuffer(ScreenW, ScreenH)
    /\ Back = NewBuffer(ScreenW, ScreenH)
    /\ mu = Nil
    /\ painters = {}
    /\ InitTerm(caps)

\* Render(screen, view) has returned: the effect ran once, reading a and b, and
\* its frame shows both digits on row 0
InitMounted ==
    /\ subscribers = [c \in Cells |-> IF c \in {"a", "b"} THEN {"e1"} ELSE {}]
    /\ dependencies = [x \in Subs |-> IF x = "e1" THEN {"a", "b"} ELSE {}]
    /\ created = {"e1"}
    /\ Back = drawTextUnlocked(ClearCells(NewBuffer(ScreenW, ScreenH)), 0, 0,
                               <<48, 48>>, DefaultStyle)
    /\ Front = Back
    /\ mu = Nil
    /\ painters = {"t1"}
    /\ InitTerm({TRUE})

Init ==
    /\ cfg \in Configs
    /\ live = {"t1"}
    /\ InitGraph
    /\ InitScreen({TRUE})

Step(t) ==
    \/ Call(t)
    \/ BodyCall(t)
    \/ Return(t)
    \/ SignalGet(t)
    \/ ComputedGet(t)
    \/ ComputedDone(t)
    \/ SignalSet(t)
    \/ Notify(t)
    \/ NotifyDone(t)
    \/ EffectDone(t)
    \/ BatchEnter(t)
    \/ BatchExit(t)
    \/ EffectDispose(t)
    \/ CreateEffect(t)

Next == \E t \in Threads : Step(t)

\* one thread: any sequence of Get, Set, Batch, CreateEffect and Dispose
Spec == Init /\ [][Next]_vars

InitDiff ==
    /\ cfg = "screen"
    /\ live = {"t1"}
    /\ InitGraph
    /\ InitScreen(BOOLEAN)

StepDiff(t) ==
    \/ Call(t)
    \/ Return(t)
    \/ ScreenLock(t)
    \/ ScreenUnlock(t)
    \/ FrameLock(t)
    \/ DrawCall(t)
    \/ FrameUnlock(t)

NextDiff == \E t \in Threads : StepDiff(t)

\* one thread: any sequence of Clear, DrawText, Render and Frame on one Screen
SpecDiff == InitDiff /\ [][NextDiff]_vars

InitCorners ==
    /\ cfg = "corners"
    /\ live = {"t1"}
    /\ InitGraph
    /\ InitScreen(BOOLEAN)

\* one thread: Clear, Render, Frame and DrawText of plain and bold texts at the
\* corners of one Screen
SpecCorners == InitCorners /\ [][NextDiff]_vars

InitRender ==
    /\ cfg \in RenderConfigs
    /\ live = Threads
    /\ InitRest
    /\ InitMounted

StepRender(t) ==
    \/ Call(t)
    \/ Return(t)
    \/ SignalGet(t)
    \/ SignalSet(t)
    \/ Notify(t)
    \/ NotifyDone(t)
    \/ EffectDone(t)
    \/ FrameLock(t)
    \/ DrawVal(t)
    \/ FrameUnlock(t)

NextRender == \E t \in Threads : StepRender(t)

\* two threads: Sets of the cells a mounted view reads
SpecRender == InitRender /\ [][NextRender]_vars

\* Render(screen, view) has returned for the view of "producer": the effect
\* ran once, reading a, and its frame shows the digit of a
InitProducer ==
    /\ cfg = "producer"
    /\ live = Threads
    /\ InitRest
    /\ subscribers = [c \in Cells |-> IF c = "a" THEN {"e1"} ELSE {}]
    /\ dependencies = [x \in Subs |-> IF x = "e1" THEN {"a"} ELSE {}]
    /\ created = {"e1"}
    /\ Back = drawTextUnlocked(ClearCells(NewBuffer(ScreenW, ScreenH)), 0, 0,
                               <<48>>, DefaultStyle)
    /\ Front = Back
    /\ mu = Nil
    /\ painters = {"t1"}
    /\ InitTerm({TRUE})

\* two threads: Sets and Gets of a cell of a mounted view and of a cell beside it
SpecProducer == InitProducer /\ [][NextRender]_vars

\* Render(screen, view) has returned for the view that shows the digit of a
InitUnmount ==
    /\ cfg = "unmount"
    /\ live = {"t1"}
    /\ InitRest
    /\ subscribers = [c \in Cells |-> IF c = "a" THEN {"e1"} ELSE {}]
    /\ dependencies = [x \in Subs |-> IF x = "e1" THEN {"a"} ELSE {}]
    /\ created = {"e1"}
    /\ Back = drawTextUnlocked(ClearCells(NewBuffer(ScreenW, ScreenH)), 0, 0,
                               <<48>>, DefaultStyle)
    /\ Front = Back
    /\ mu = Nil
    /\ painters = {"t1"}
    /\ InitTerm({TRUE})

StepUnmount(t) ==
    \/ StepRender(t)
    \/ ScreenLock(t)
    \/ ScreenUnlock(t)

NextUnmount == \E t \in Threads : StepUnmount(t)

\* one thread: Sets of the cells of a mounted view, and Close
SpecUnmount == InitUnmount /\ [][NextUnmount]_vars

\* two effects were created, one reading a and one reading b
InitQueue ==
    /\ cfg = "queue"
    /\ live = {"t1"}
    /\ InitRest
    /\ subscribers = [c \in Cells |-> IF c = "a" THEN {"e1"} ELSE IF c = "b" THEN {"e2"} ELSE {}]
    /\ dependencies = [x \in Subs |-> IF x = "e1" THEN {"a"} ELSE IF x = "e2" THEN {"b"} ELSE {}]
    /\ created = {"e1", "e2"}
    /\ InitScreen({TRUE})

StepQueue(t) ==
    \/ Call(t)
    \/ BodyCall(t)
    \/ Return(t)
    \/ SignalGet(t)
    \/ SignalSet(t)
    \/ Notify(t)
    \/ NotifyDone(t)
    \/ EffectDone(t)
    \/ BatchEnter(t)
    \/ BatchExit(t)
    \/ EffectDispose(t)

NextQueue == \E t \in Threads : StepQueue(t)

\* one thread: Sets and Batches of Sets on the cells two effects read
SpecQueue == InitQueue /\ [][NextQueue]_vars

\* no effect was created yet; e1 will read a with Peek only, e2 with Get and Peek
InitPeek ==
    /\ cfg = "peek"
    /\ live = {"t1"}
    /\ InitGraph
    /\ InitScreen({TRUE})

StepPeek(t) ==
    \/ Call(t)
    \/ Return(t)
    \/ SignalGet(t)
    \/ SignalPeek(t)
    \/ SignalSet(t)
    \/ Notify(t)
    \/ NotifyDone(t)
    \/ EffectDone(t)
    \/ CreateEffect(t)

NextPeek == \E t \in Threads : StepPeek(t)

\* one thread: any sequence of Set, Get, Peek and CreateEffect on the cell a
SpecPeek == InitPeek /\ [][NextPeek]_vars

\* a cell a and a derived cell d1 = 10 + a, not yet evaluated
InitRace ==
    /\ cfg = "race"
    /\ live = Threads
    /\ InitGraph
    /\ InitScreen({TRUE})

StepRace(t) ==
    \/ Call(t)
    \/ Return(t)
    \/ SignalGet(t)
    \/ ComputedGet(t)
    \/ ComputedDone(t)
    \/ SignalSet(t)
    \/ Notify(t)
    \/ NotifyDone(t)

NextRace == \E t \in Threads : StepRace(t)

\* two threads: t1 Gets d1 and t2 Sets a, so that a Set can run while d1.fn does
SpecRace == InitRace /\ [][NextRace]_vars

\* a cell a of type []int, holding an empty slice
InitSlices ==
    /\ cfg = "slices"
    /\ live = {"t1"}
    /\ InitGraph
    /\ InitScreen({TRUE})

StepSlices(t) ==
    \/ Call(t)
    \/ Return(t)
    \/ SignalGet(t)
    \/ SignalSet(t)
    \/ Notify(t)
    \/ NotifyDone(t)
    \/ EffectDone(t)
    \/ CreateEffect(t)

NextSlices == \E t \in Threads : StepSlices(t)

\* one thread: Sets and Gets of a cell of type []int that an effect reads
SpecSlices == InitSlices /\ [][NextSlices]_vars

\* the view of "reenter" passes the cell a and a derived cell d1 whose function
\* reads b and Sets a; Render was not called yet
InitReenter ==
    /\ cfg = "reenter"
    /\ live = {"t1"}
    /\ InitGraph
    /\ InitScreen({TRUE})

StepReenter(t) ==
    \/ Call(t)
    \/ Return(t)
    \/ SignalGet(t)
    \/ ComputedGet(t)
    \/ ComputedDone(t)
    \/ SignalSet(t)
    \/ Notify(t)
    \/ NotifyDone(t)
    \/ EffectDone(t)
    \/ CreateEffect(t)
    \/ FrameLock(t)
    \/ DrawVal(t)
    \/ FrameUnlock(t)

NextReenter == \E t \in Threads : StepReenter(t)

\* one thread: Render of a view whose walk Sets a cell it read, and Sets of a and b
SpecReenter == InitReenter /\ [][NextReenter]_vars

\* a cell a and a derived cell d1 = 10 + a, not yet evaluated
InitContend ==
    /\ cfg = "contend"
    /\ live = Threads
    /\ InitGraph
    /\ InitScreen({TRUE})

\* two threads: each Sets a and Gets d1
SpecContend == InitContend /\ [][NextRace]_vars

\* cells a and b; the effect e1, not created yet, reads a, Sets a to 1 and reads b
InitSelfSet ==
    /\ cfg = "selfset"
    /\ live = {"t1"}
    /\ InitGraph
    /\ InitScreen({TRUE})

\* one thread: Sets and Gets of the cells of an effect that writes a cell it read
SpecSelfSet == InitSelfSet /\ [][NextSlices]_vars

\* cells a and b and effects not created yet.  In "selfdispose"
\*     e1 = CreateEffect(func() { if a.Get() != 0 { e1.Dispose() }; b.Get() })
\* and in "triggered"
\*     e1 = CreateEffect(func() { if a.Get() != 0 { b.Set(1) }; a.Get() })
\*     e2 = CreateEffect(func() { if b.Get() != 0 { e1.Dispose() } })
InitSelfDispose ==
    /\ cfg \in DisposeConfigs
    /\ live = {"t1"}
    /\ InitGraph
    /\ InitScreen({TRUE})

StepSelfDispose(t) ==
    \/ StepSlices(t)
    \/ EffectDispose(t)

NextSelfDispose == \E t \in Threads : StepSelfDispose(t)

\* one thread: Sets and Gets of the cells of an effect that is disposed during
\* its run, by its own function or by an effect it triggers
SpecSelfDispose == InitSelfDispose /\ [][NextSelfDispose]_vars

\* before NewScreen: a terminal in cooked mode that shows its cursor
InitNoScreen ==
    /\ live = {"t1"}
    /\ InitGraph
    /\ Front = NewBuffer(0, 0)
    /\ Back = NewBuffer(0, 0)
    /\ mu = Nil
    /\ painters = {}
    /\ supportsItalic = TRUE
    /\ supportsStrike = TRUE
    /\ closed = FALSE
    /\ out = <<>>
    /\ prevFront = NewBuffer(0, 0)
    /\ drawn = 0
    /\ fresh = FALSE
    /\ mixed = FALSE
    /\ InitInputPump
    /\ cursorShown = TRUE
    /\ rawMode = FALSE
    /\ oldState = Nil
    /\ restored = FALSE
    /\ inputChan = Nil
    /\ pump = "off"

StepInput(t) ==
    \/ Call(t)
    \/ Return(t)
    \/ NewScreen(t)
    \/ OnKey(t)
    \/ ScreenLock(t)
    \/ ScreenUnlock(t)

\* the goroutines started by NewScreen and OnKey
InputLoop ==
    \/ ReadByte
    \/ PumpExit
    \/ PumpByte
    \/ PumpEsc
    \/ PumpSequence
    \/ \E k \in Listeners : PumpSend(k)
    \/ \E k \in Listeners : CallbackReturn(k)
    \/ \E k \in Listeners : ListenerEnd(k)

NextInput ==
    \/ \E t \in Threads : StepInput(t)
    \/ InputLoop

InitInput ==
    /\ cfg = "input"
    /\ termSize = [w |-> ScreenW, h |-> ScreenH]
    /\ InitNoScreen
    /\ NoCalls

\* one thread calls NewScreen, OnKey and Close while keys are typed
SpecInput == InitInput /\ [][NextInput]_vars

\* the input loop and the goroutines of OnKey are scheduled again and again:
\* a step of the loop that stays possible is taken, a callback goroutine whose
\* channel was closed ends; a callback function need not return
InputLoopFair ==
    /\ WF_vars(PumpExit)
    /\ WF_vars(PumpByte)
    /\ WF_vars(PumpEsc)
    /\ WF_vars(PumpSequence)
    /\ \A k \in Listeners : WF_vars(PumpSend(k)) /\ WF_vars(ListenerEnd(k))

SpecInputFair == SpecInput /\ InputLoopFair

\* CSI parameter bytes: the digits and ';'
ParamBytes == 48..57 \cup {59}

\* final bytes: A B C D F H, P Q R S, Z and '~'
FinalBytes == {65, 66, 67, 68, 70, 72, 80, 81, 82, 83, 90, 126}

\* the bytes a terminal sends for one key press that starts with ESC: ESC
\* alone, ESC and one more byte, ESC [ params final, ESC [ params cut short,
\* ESC O final
EscSequences ==
    {<<27>>}
    \cup {<<27, x>> : x \in {27, 79, 91, 97}}
    \cup {<<27, 91>> \o p \o <<f>> : p \in SeqsUpTo(ParamBytes, MaxParams), f \in FinalBytes}
    \cup {<<27, 91>> \o p : p \in SeqsUpTo(ParamBytes, MaxParams)}
    \cup {<<27, 79, f>> : f \in FinalBytes}

NextDecode ==
    \/ PumpByte
    \/ PumpEsc
    \/ PumpSequence
    \/ \E k \in Listeners : PumpSend(k)
    \/ \E k \in Listeners : CallbackReturn(k)

\* after NewScreen and OnKey, with one callback receiving
InitDecoder ==
    /\ live = {"t1"}
    /\ InitGraph
    /\ Front = NewBuffer(ScreenW, ScreenH)
    /\ Back = NewBuffer(ScreenW, ScreenH)
    /\ mu = Nil
    /\ painters = {}
    /\ supportsItalic = TRUE
    /\ supportsStrike = TRUE
    /\ closed = FALSE
    /\ out = <<>>
    /\ prevFront = NewBuffer(ScreenW, ScreenH)
    /\ drawn = 0
    /\ fresh = FALSE
    /\ mixed = FALSE
    /\ termSize = [w |-> ScreenW, h |-> ScreenH]
    /\ cursorShown = FALSE
    /\ rawMode = TRUE
    /\ oldState = "cooked"
    /\ restored = FALSE
    /\ inputChan = "open"
    /\ pump = "select"
    /\ pending = NoEvent
    /\ listeners = [k \in Listeners |-> IF k = "k1" THEN "recv" ELSE "none"]
    /\ got = [k \in Listeners |-> <<>>]
    /\ sent = <<>>
    /\ early = {"k1"}
    /\ params = <<>>
    /\ NoCalls

\* the reader goroutine has pushed the bytes of one key press to rawCh and the
\* loop has not taken any of them yet
InitDecode ==
    /\ cfg = "decode"
    /\ InitDecoder
    /\ keys \in EscSequences
    /\ rawCh = keys
    /\ typed = Len(keys)

\* the input loop decodes the bytes of one key press for one callback
SpecDecode == InitDecode /\ [][NextDecode]_vars

\* ESC [ with parameter bytes and no final byte, or ESC O
Unfinished == {<<27, 91>> \o p : p \in SeqsUpTo(ParamBytes, MaxParams)} \cup {<<27, 79>>}

\* the byte of the next key press: 'A', '1' or '~'
LateBytes == {65, 49, 126}

\* the reader goroutine has pushed an unfinished sequence; one more byte will
\* be typed
InitLate ==
    /\ cfg = "late"
    /\ InitDecoder
    /\ \E p \in Unfinished, b \in LateBytes :
          /\ keys = Append(p, b)
          /\ rawCh = p
          /\ typed = Len(p)

\* the reading goroutine: the last byte of keys is typed once the loop waits
\* in its select again, that is after the timer of readByteTimeout fired
ReadLate ==
    /\ cfg = "late"
    /\ typed < Len(keys)
    /\ pump = "select"
    /\ rawCh = <<>>
    /\ typed' = typed + 1
    /\ rawCh' = <<keys[typed + 1]>>
    /\ UNCHANGED <<cfg, live, sigVars, histVars, scrVars, termSize, cursorShown, rawMode,
                   oldState, restored, inputChan, pump, pending, listeners, got, sent,
                   early, params, keys, pureVars>>

\* the input loop decodes an unfinished sequence and the key typed after it
SpecLate == InitLate /\ [][ReadLate \/ NextDecode]_vars

NextTemplate == Template \/ Render

\* after NewScreen on a terminal wide enough for the templates: a template
\* and its arguments
InitTemplate ==
    /\ cfg = "template"
    /\ live = {"t1"}
    /\ InitGraph
    /\ Front = NewBuffer(ScreenW + 4, ScreenH)
    /\ Back = NewBuffer(ScreenW + 4, ScreenH)
    /\ mu = Nil
    /\ painters = {}
    /\ supportsItalic = TRUE
    /\ supportsStrike = TRUE
    /\ closed = FALSE
    /\ out = <<>>
    /\ prevFront = NewBuffer(ScreenW + 4, ScreenH)
    /\ drawn = 0
    /\ fresh = FALSE
    /\ mixed = FALSE
    /\ termSize = [w |-> ScreenW + 4, h |-> ScreenH]
    /\ cursorShown = FALSE
    /\ rawMode = TRUE
    /\ oldState = "cooked"
    /\ restored = FALSE
    /\ inputChan = "open"
    /\ pump = "select"
    /\ rawCh = <<>>
    /\ typed = 0
    /\ pending = NoEvent
    /\ listeners = [k \in Listeners |-> "none"]
    /\ got = [k \in Listeners |-> <<>>]
    /\ sent = <<>>
    /\ early = {}
    /\ params = <<>>
    /\ keys = <<>>
    /\ template \in Templates
    /\ args \in SeqsUpTo(Values, MaxArgs)
    /\ renderable = NoRenderable
    /\ mounted = FALSE
    /\ shown = <<>>
    /\ NoMeasure
    /\ NoMerge
    /\ NoBuffer

\* one thread calls Template and mounts the result with Render
SpecTemplate == InitTemplate /\ [][NextTemplate]_vars

\* a layout tree that was not measured yet, and a constraint
InitLayout ==
    /\ cfg = "layout"
    /\ InitNoScreen
    /\ termSize = [w |-> ScreenW, h |-> ScreenH]
    /\ NoTemplate
    /\ layout \in Layouts
    /\ constraint \in Constraints
    /\ measured = 0
    /\ size = [w |-> 0, h |-> 0]
    /\ prior = [layout |-> NoLayout, size |-> [w |-> 0, h |-> 0]]
    /\ NoMerge
    /\ NoBuffer

\* Measure is called again and again on one tree with one constraint
SpecLayout == InitLayout /\ [][MeasureLayout]_vars

\* three styles that were not merged yet
InitMerge ==
    /\ cfg = "merge"
    /\ InitNoScreen
    /\ termSize = [w |-> ScreenW, h |-> ScreenH]
    /\ NoTemplate
    /\ NoMeasure
    /\ NoBuffer
    /\ styles \in StylesTried \X StylesTried \X StylesTried
    /\ merged = NotMerged

\* mergeStyles is applied to three styles, grouped both ways
SpecMerge == InitMerge /\ [][MergeCall]_vars

\* b := NewBuffer(width, height)
InitBuffer ==
    /\ cfg = "buffer"
    /\ InitNoScreen
    /\ termSize = [w |-> ScreenW, h |-> ScreenH]
    /\ NoTemplate
    /\ NoMeasure
    /\ NoMerge
    /\ \E width \in 0..ScreenW, height \in 0..ScreenH : buffer = NewBuffer(width, height)
    /\ bufOps = 0
    /\ bufBefore = buffer
    /\ bufCall = NoBufCall

\* any calls of Set and Resize on one Buffer
SpecBuffer == InitBuffer /\ [][BufferSetCall \/ BufferResizeCall]_vars

StepTerm(t) ==
    \/ Call(t)
    \/ Return(t)
    \/ NewScreen(t)
    \/ ScreenLock(t)
    \/ ScreenUnlock(t)

NextTerm ==
    \/ \E t \in Threads : StepTerm(t)
    \/ TermResize

InitResize ==
    /\ cfg = "term"
    /\ termSize \in TermSizes
    /\ InitNoScreen
    /\ NoCalls

\* one thread calls NewScreen, Clear, DrawText, Render and Close while the
\* terminal is resized
SpecTerm == InitResize /\ [][NextTerm]_vars

InitPaint ==
    /\ cfg = "paint"
    /\ live = Threads
    /\ InitGraph
    /\ InitScreen({TRUE})

\* two threads: any sequence of Clear, DrawText, Render, Frame and Close on one Screen
SpecPaint == InitPaint /\ [][NextDiff]_vars

(***************************************************************************)
(* Properties of the reactive graph                                        *)
(***************************************************************************)
\* the call the main program made has returned
Returned(t) == stack[t] # <<>> /\ Top(t).kind = "main" /\ Top(t).ops = <<>>

\* the function the main program passed to its outermost Batch is executing
InBatchBody(t) ==
    /\ Len(stack[t]) >= 2
    /\ stack[t][2].kind = "batch"

\* an activation of x's function is on some stack
IsRunning(x) ==
    \E t \in Threads : \E i \in 1..Len(stack[t]) :
        stack[t][i].kind \in {"effect", "computed"} /\ stack[t][i].owner = x

\* no effect run and no derived recomputation is in progress
Quiescent == \A x \in Subs : ~IsRunning(x)

\* C1: for a Batch entered while no other batch is active, an effect that is
\* subscribed to a cell whose value the batch function changes (and that the
\* function does not dispose) does not run while the function executes and has
\* run exactly once when Batch returns, however many cells were written and
\* however often.
C1_BatchRunsOnce ==
    \A t \in live :
        /\ (curOp.op = "batch" /\ InBatchBody(t)) =>
              \A e \in Effects : runs[e] = 0
        /\ (curOp.op = "batch" /\ Returned(t)) =>
              \A e \in hit : ~disposed[e] => runs[e] = 1

C1_Witness ==
    /\ Returned("t1")
    /\ curOp.op = "batch"
    /\ writes >= 2
    /\ "e1" \in hit
    /\ runs["e1"] = 1
    /\ cfg = "plain"
    /\ value["a"] = 1
    /\ value["b"] = 1

\* cell s is among the dependencies of x when curOp began, directly or through
\* derived cells
DependedAtCall(x, s) ==
    LET d1 == atCall.deps[x]
        d2 == d1 \cup UNION {atCall.deps[d] : d \in d1 \cap Derived}
        d3 == d2 \cup UNION {atCall.deps[d] : d \in d2 \cap Derived}
    IN  s \in d3

\* C2: after every completed run of an effect its dependency set, and the set
\* of cells holding it as a subscriber, is exactly the set of cells it read
\* with Get in that run; a Set on a cell the last run did not read (nor a
\* derived cell it read depends on) does not run the effect, and a Set that
\* changes a cell read in the last run runs it.
C2_DepsAreLastReads ==
    /\ \A e \in created :
          (~disposed[e] /\ ~IsRunning(e)) =>
              /\ dependencies[e] = readSet[e]
              /\ {c \in Cells : e \in subscribers[c]} = readSet[e]
    /\ \A t \in live :
          (Returned(t) /\ curOp.op = "set") =>
              \A e \in created :
                  ~disposed[e] =>
                      /\ (curOp.c \notin atCall.read[e] /\ ~DependedAtCall(e, curOp.c))
                            => runs[e] = 0
                      /\ (curOp.c \in atCall.read[e] /\ atCall.val[curOp.c] # curOp.v)
                            => runs[e] >= 1

\* TestConditionalDependency: b was read by an earlier run, the branch flipped,
\* and a Set that changes b has returned
C2_Witness ==
    /\ cfg = "cond"
    /\ Returned("t1")
    /\ curOp.op = "set"
    /\ curOp.c = "b"
    /\ atCall.val["b"] # value["b"]
    /\ "b" \in everRead["e1"]
    /\ readSet["e1"] = {"flag", "a"}
    /\ runs["e1"] = 0

\* C3: once Dispose has returned on an effect, its function is not run by any
\* Set, outside or inside a batch, nor by the flush of a batch in which it was
\* queued before Dispose, and the effect is in no cell's subscriber set.
C3_DisposedNeverRuns ==
    \A e \in Effects :
        disposed[e] =>
            /\ \A c \in Cells : e \notin subscribers[c]
            /\ ~IsRunning(e)
            /\ (\E t \in live : Returned(t)) => runs[e] = 0

\* the effect was queued by a Set inside a batch, then disposed, and the batch
\* has flushed its queue and returned
C3_Witness ==
    /\ Returned("t1")
    /\ curOp.op = "batch"
    /\ "e1" \in hit
    /\ disposed["e1"]
    /\ runs["e1"] = 0
    /\ batchQueue = {}

\* C4 as claimed: outside a batch an effect runs once at creation and exactly
\* once for every Set that changes a cell it depends on, in every graph.
C4_OncePerSet ==
    \A t \in live :
        /\ (Returned(t) /\ curOp.op = "set") => \A e \in hit : runs[e] = 1
        /\ (Returned(t) /\ curOp.op = "create") => runs[curOp.c] = 1

\* C5 as claimed: no effect run is handed a cached derived value that differs
\* from the derived function's result on the current cell values.
C5_GlitchFree == ~glitch

\* C6: a Get of a derived cell made by the main program, at top level or inside
\* a batch function, after any sequence of Sets and Gets, returns the derived
\* function's result on the current values of the cells.
C6_DerivedIsCurrent ==
    lastGet.c \in Derived => lastGet.v = lastGet.want

\* d2 = flag + (d1 or b) + 20 read inside a batch after a write, through d1
C6_Witness ==
    /\ cfg = "chain"
    /\ batchDepth > 0
    /\ writes >= 1
    /\ lastGet.c = "d2"
    /\ value["flag"] = 1
    /\ value["a"] = 1
    /\ lastGet.v = 32

\* C7: whenever no effect run or derived recomputation is in progress, a
\* subscriber s is in the subscriber set of cell c exactly when c is in the
\* dependency set of s.
C7_LinksSymmetric ==
    Quiescent =>
        \A c \in Cells : \A x \in Subs :
            x \in subscribers[c] <=> c \in dependencies[x]

C7_Witness ==
    /\ cfg = "chain"
    /\ Quiescent
    /\ Returned("t1")
    /\ curOp.op = "set"
    /\ runs["e1"] >= 1
    /\ subscribers["a"] = {"d1"}
    /\ subscribers["d1"] = {"d2"}
    /\ subscribers["d2"] = {"e1"}

(***************************************************************************)
(* Properties of the screen                                                *)
(***************************************************************************)
\* thread t is between the Lock and the Unlock of a Screen method
InCritical(t) ==
    \E i \in 1..Len(stack[t]) : stack[t][i].kind \in {"draw", "locked"}

\* thread t has called a Screen method and waits for the mutex
AtLock(t) == AtOp(t, {"screen", "frame"})

\* C8: at most one thread at a time is inside the critical section of Frame,
\* Render, Clear, DrawText or Close, and it holds the mutex; every frame that is
\* flushed was cleared and drawn by the flushing thread alone, so the front
\* buffer and the output never hold a mix of two frames.
C8_ScreenExclusive ==
    /\ Cardinality({t \in Threads : InCritical(t)}) <= 1
    /\ \A t \in Threads : InCritical(t) => mu = t
    /\ ~mixed

\* t1 has drawn inside Frame while t2 waits at the Lock of a Screen method
C8_Witness ==
    /\ cfg = "paint"
    /\ stack["t1"] # <<>>
    /\ Top("t1").kind = "draw"
    /\ drawn = 1
    /\ Back.Cells[1].Char = 88
    /\ AtLock("t2")
    /\ mu = "t1"

\* what a terminal shows of a cell: rune 0 is written as a space, and writeStyle
\* sends dim for italic and nothing for strike when the capability is missing
Shown(cell) ==
    MkCell(IF cell.Char = 0 THEN 32 ELSE cell.Char,
           [cell.Style EXCEPT !.Italic = cell.Style.Italic /\ supportsItalic,
                              !.Dim = cell.Style.Dim \/ (cell.Style.Italic /\ ~supportsItalic),
                              !.Strike = cell.Style.Strike /\ supportsStrike])

\* a terminal of the buffer's size that shows buffer b, pen reset
TermShowing(b) ==
    [Width |-> b.Width, Height |-> b.Height,
     Cells |-> [i \in 1..Len(b.Cells) |-> Shown(b.Cells[i])],
     x |-> 0, y |-> 0, pen |-> DefaultStyle]

\* select graphic rendition n
TermSgr(pen, n) ==
    CASE n = 0 -> DefaultStyle
      [] n = 1 -> [pen EXCEPT !.Bold = TRUE]
      [] n = 2 -> [pen EXCEPT !.Dim = TRUE]
      [] n = 3 -> [pen EXCEPT !.Italic = TRUE]
      [] n = 4 -> [pen EXCEPT !.Underline = TRUE]
      [] n = 5 -> [pen EXCEPT !.Blink = TRUE]
      [] n = 7 -> [pen EXCEPT !.Reverse = TRUE]
      [] n = 9 -> [pen EXCEPT !.Strike = TRUE]
      [] n \in 30..37 \/ n \in 90..97 -> [pen EXCEPT !.Color = n]
      [] n \in 40..47 \/ n \in 100..107 -> [pen EXCEPT !.BgColor = n]
      [] OTHER -> pen

\* the terminal after one item of the stream
TermApply(term, tok) ==
    CASE tok.t = "cup" -> [term EXCEPT !.x = tok.b - 1, !.y = tok.a - 1]
      [] tok.t = "sgr" -> [term EXCEPT !.pen = TermSgr(@, tok.a)]
      [] OTHER ->
             IF term.x < 0 \/ term.x >= term.Width \/ term.y < 0 \/ term.y >= term.Height
             THEN term
             ELSE [term EXCEPT !.Cells[term.y * term.Width + term.x + 1] =
                                   MkCell(tok.a, term.pen),
                               !.x = @ + 1]

RECURSIVE TermReplay(_, _)

\* the terminal after the stream
TermReplay(term, stream) ==
    IF stream = <<>> THEN term
    ELSE TermReplay(TermApply(term, Head(stream)), Tail(stream))

\* C9: after a render pass the front buffer equals the back buffer cell for
\* cell, and replaying the stream the pass emitted on a terminal that shows the
\* previous front buffer yields a terminal that shows the back buffer (each
\* buffer taken as the terminal can show it: space for rune 0, and the
\* substitutes of italic and strike when the terminal lacks them).
C9_ReplayYieldsBack ==
    fresh =>
        /\ Front.Cells = Back.Cells
        /\ TermReplay(TermShowing(prevFront), out).Cells
               = [i \in 1..Len(Back.Cells) |-> Shown(Back.Cells[i])]

\* the part of C9 about the buffers alone
C9_FrontEqualsBack == fresh => Front.Cells = Back.Cells

\* C10: two threads write the cells of a mounted view; once every call has
\* returned, the front buffer shows the view of the final values of the cells
\* (the digit of a at column 0, the digit of b at column 1).
C10_FinalFrameShown ==
    ((\A t \in Threads : stack[t] = <<>>) /\ ~panicked)
        => /\ Front.Cells[1].Char = 48 + value["a"]
           /\ Front.Cells[2].Char = 48 + value["b"]

(***************************************************************************)
(* Properties of the mounted view                                          *)
(***************************************************************************)
\* C11: the view of "producer" reads the cell a only, so the render effect is
\* never linked to b, whatever Gets the threads make on b while a walk is in
\* progress: b is not among the effect's dependencies and the effect is not
\* among b's subscribers.
C11_ForeignGetNotTracked ==
    cfg = "producer" => ("b" \notin dependencies["e1"] /\ "e1" \notin subscribers["b"])

(***************************************************************************)
(* Properties of the derived cells and of Set                              *)
(***************************************************************************)
\* an evaluation of a derived function is in progress only as the callee of a
\* Get on that derived cell
EvaluatedInsideGet ==
    \A t \in Threads : \A i \in 1..Len(stack[t]) :
        stack[t][i].kind = "computed" =>
            /\ i > 1
            /\ stack[t][i - 1].ops # <<>>
            /\ Head(stack[t][i - 1].ops).op \in {"get", "if"}
            /\ Head(stack[t][i - 1].ops).c = stack[t][i].owner

\* C12: the function of a derived cell is called only inside a Get on the cell
\* (not when the cell is created, not by a Set), and at most once between two
\* changes of the cells it depends on, however many Gets are made in between.
C12_DerivedIsLazy ==
    /\ EvaluatedInsideGet
    /\ \A d \in Derived : evals[d] <= 1

\* a Get of the main program returned the cached value of a derived cell that
\* was evaluated once since its dependencies last changed
C12_Witness ==
    /\ Returned("t1")
    /\ curOp.op = "get"
    /\ curOp.c \in Derived
    /\ curOp.c \in reused
    /\ evals[curOp.c] = 1
    /\ \E c \in StateCells : c \in dependencies[curOp.c] /\ value[c] # 0

\* thread t's next step is a Set of the value the cell already holds
EqualSetStep(t) ==
    /\ AtOp(t, {"set"})
    /\ value[Head(Top(t).ops).c] = Head(Top(t).ops).v
    /\ SignalSet(t)

\* the main program's top-level call is a Set of the value the cell held when
\* the call was made
EqualSetCalled ==
    /\ curOp.op = "set"
    /\ atCall.val[curOp.c] = curOp.v

\* C13: a Set of a value equal to the cell's current value changes nothing: the
\* values and the subscriber and dependency sets stay as they are, no derived
\* cell becomes dirty, nothing is added to the batch queue, no notification is
\* started and no effect runs, up to the return of the call.
C13_EqualSetIsNoOp ==
    /\ [][\A t \in Threads : EqualSetStep(t) =>
              /\ UNCHANGED <<value, cvalue, subscribers, dependencies, dirty,
                             batchQueue, batchDepth, activeSubscriber, runs>>
              /\ Len(stack'[t]) = Len(stack[t])
              /\ Top(t).kind = stack'[t][Len(stack[t])].kind]_vars
    /\ [](EqualSetCalled =>
              /\ value = atCall.val
              /\ dependencies = atCall.deps
              /\ \A e \in Effects : runs[e] = 0 /\ ~IsRunning(e)
              /\ batchQueue = {})

\* an equal Set of a non-zero value on a cell that has an effect and, in the
\* "diamond" application, a derived cell among its subscribers has returned
C13_Witness ==
    /\ Returned("t1")
    /\ EqualSetCalled
    /\ curOp.v # 0
    /\ subscribers[curOp.c] \cap Effects # {}
    /\ cfg = "diamond" => subscribers[curOp.c] \cap Derived # {}

\* thread t's next step is the return of a Batch nested in another one
InnerBatchExit(t) == batchDepth > 1 /\ BatchExit(t)

\* C14: when a Batch nested in another one returns, the queue is left as it is
\* and no queued effect is notified or run; while any batch is active no effect
\* runs; when the outermost Batch has returned, every effect subscribed to a
\* cell changed at any level has run exactly once and no effect more than once.
C14_NestedBatchDefers ==
    /\ [][\A t \in Threads : InnerBatchExit(t) =>
              /\ UNCHANGED <<batchQueue, runs, value, subscribers, dependencies>>
              /\ stack'[t] = Pop(stack[t])
              /\ batchDepth' = batchDepth - 1]_vars
    /\ [](batchDepth > 0 => \A e \in Effects : runs[e] = 0 /\ ~IsRunning(e))
    /\ [](\A t \in live : (curOp.op = "batch" /\ innerExit /\ Returned(t)) =>
              /\ batchDepth = 0
              /\ batchQueue = {}
              /\ \A e \in Effects : runs[e] <= 1
              /\ \A e \in hit : ~disposed[e] => runs[e] = 1)

\* an outermost Batch returned after a nested Batch had returned with an
\* effect queued, and the effect ran once
C14_Witness ==
    /\ Returned("t1")
    /\ curOp.op = "batch"
    /\ innerExit
    /\ \E e \in hit : ~disposed[e] /\ runs[e] = 1

\* C15: when the outermost Batch returns, the queued effects are notified in
\* the order in which they were first added to the queue: at every moment the
\* effects notified so far are an initial part of the queue in insertion order.
C15_FlushInInsertionOrder ==
    /\ Len(flushed) <= Len(queued)
    /\ \A i \in 1..Len(flushed) : flushed[i] = queued[i]

(***************************************************************************)
(* Properties of the Screen                                                *)
(***************************************************************************)
RECURSIVE TermWritten(_, _)

\* the cells (numbered row-major from 1) to which the stream writes a
\* character on terminal term
TermWritten(term, stream) ==
    IF stream = <<>> THEN {}
    ELSE (IF /\ Head(stream).t = "chr"
             /\ term.x >= 0 /\ term.x < term.Width
             /\ term.y >= 0 /\ term.y < term.Height
          THEN {term.y * term.Width + term.x + 1}
          ELSE {})
         \cup TermWritten(TermApply(term, Head(stream)), Tail(stream))

\* the number of items of kind k in the stream
Emitted(stream, k) == Cardinality({i \in 1..Len(stream) : stream[i].t = k})

\* the cells in which the back buffer differed from the front buffer when the
\* last render pass began
ChangedCells == {i \in 1..Len(Back.Cells) : Back.Cells[i] # prevFront.Cells[i]}

\* C16: a render pass writes a character to cell (x, y) exactly when the back
\* cell differed from the front cell when the pass began, and writes it once;
\* a pass over a back buffer equal to the front buffer emits nothing, so no
\* cursor move and no character.
C16_DiffIsMinimal ==
    fresh =>
        /\ TermWritten(TermShowing(prevFront), out) = ChangedCells
        /\ Emitted(out, "chr") = Cardinality(ChangedCells)
        /\ Emitted(out, "cup") <= Cardinality(ChangedCells)
        /\ ChangedCells = {} => out = <<>>

\* a pass found some cells changed and a drawn cell unchanged, and wrote
\* something
C16_Witness ==
    /\ fresh
    /\ ChangedCells # {}
    /\ out # <<>>
    /\ \E i \in 1..Len(Back.Cells) :
           /\ i \notin ChangedCells
           /\ Back.Cells[i].Char \notin {0, 32}

\* the size of buffer b
SizeOf(b) == [w |-> b.Width, h |-> b.Height]

\* C17: once a render pass has completed after the terminal was last resized,
\* the front and the back buffer have the terminal's new size.
C17_BuffersFollowResize ==
    (cfg = "term" /\ fresh) => (SizeOf(Back) = termSize /\ SizeOf(Front) = termSize)

(***************************************************************************)
(* Properties of the input loop                                            *)
(***************************************************************************)
\* every byte typed was decoded, no event waits to be sent and every callback
\* function has returned
InputQuiet ==
    /\ pump = "select"
    /\ rawCh = <<>>
    /\ \A k \in Listeners : listeners[k] # "busy"

\* C18: once the input is quiet, a callback registered with OnKey before any
\* key was typed has been invoked with every key event received from the input
\* channel, in order; with two such callbacks every event has reached both.
C18_EveryCallbackGetsEveryKey ==
    InputQuiet => \A k \in early : got[k] = sent

\* C19: once Close has closed the done channel, the input loop eventually
\* returns and closes the key-event channel, whatever it was doing: waiting
\* for a byte, waiting inside the ESC or CSI timeout, or blocked sending an
\* event.
C19_PumpExitsAfterClose == closed ~> (pump = "exited" /\ inputChan = "closed")

\* C20: between NewScreen and Close the cursor is hidden, the terminal is in
\* raw mode exactly when a mode was saved, and the Screen is usable (buffers of
\* the size read, input loop started) also when raw mode was refused; after
\* Close the cursor is shown, the terminal is back in the mode it had before
\* NewScreen, and the mode was restored exactly when one had been saved.
C20_CloseRestoresTerminal ==
    /\ (inputChan # Nil /\ ~closed) =>
          /\ ~cursorShown
          /\ rawMode <=> (oldState # Nil)
          /\ pump = "select"
          /\ Len(Back.Cells) = Back.Width * Back.Height /\ Len(Back.Cells) > 0
          /\ SizeOf(Front) = SizeOf(Back)
    /\ closed =>
          /\ cursorShown
          /\ ~rawMode
          /\ restored <=> (oldState # Nil)

\* NewScreen entered raw mode and Close has returned
C20_Witness ==
    /\ closed
    /\ Returned("t1")
    /\ oldState # Nil
    /\ restored
    /\ cursorShown

(***************************************************************************)
(* Properties of the input decoder                                         *)
(***************************************************************************)
\* the events the loop has produced: those received and the one being sent
Produced == IF pending = NoEvent THEN sent ELSE Append(sent, pending)

\* the loop waits for a byte and none is left
DecodeQuiet == pump = "select" /\ rawCh = <<>>

EscEvent == KeyEvent("KeyEsc", 0, "None")

\* the keys of CSI and SS3 sequences
SequenceKeys ==
    {"KeyArrowUp", "KeyArrowDown", "KeyArrowRight", "KeyArrowLeft", "KeyHome", "KeyEnd",
     "KeyInsert", "KeyDelete", "KeyPgUp", "KeyPgDown", "KeyF1", "KeyF2", "KeyF3", "KeyF4",
     "KeyF5", "KeyF6", "KeyF7", "KeyF8", "KeyF9", "KeyF10", "KeyF11", "KeyF12"}

\* C21: an ESC byte that no byte follows before the timer produces exactly one
\* Esc event; an ESC byte that a byte follows in time produces no Esc event:
\* after '[' or 'O' only keys of sequences, after any other byte x only
\* Char(x) with Alt, and that one exactly once
C21_EscAloneOrPrefix ==
    cfg = "decode" =>
        /\ Len(keys) = 1 =>
              /\ Len(Produced) <= 1
              /\ \A i \in 1..Len(Produced) : Produced[i] = EscEvent
              /\ DecodeQuiet => Produced = <<EscEvent>>
        /\ Len(keys) >= 2 =>
              /\ \A i \in 1..Len(Produced) : Produced[i] # EscEvent
              /\ keys[2] \in {79, 91} =>
                    \A i \in 1..Len(Produced) : Produced[i].Key \in SequenceKeys
              /\ keys[2] \notin {79, 91} =>
                    /\ \A i \in 1..Len(Produced) :
                          Produced[i] = KeyEvent("KeyChar", keys[2], "ModAlt")
                    /\ Len(Produced) <= 1
                    /\ DecodeQuiet => Len(Produced) = 1

\* ESC alone was decoded to the Esc key, and ESC a to Alt+a
C21_Witness ==
    /\ cfg = "decode"
    /\ DecodeQuiet
    /\ \/ keys = <<27>> /\ sent = <<EscEvent>>
       \/ keys = <<27, 97>> /\ sent = <<KeyEvent("KeyChar", 97, "ModAlt")>>

\* the parameter bytes before the first ';'
LeadingParam(p) ==
    IF \E i \in 1..Len(p) : p[i] = 59
    THEN SubSeq(p, 1, (CHOOSE i \in 1..Len(p) : p[i] = 59 /\ \A j \in 1..(i - 1) : p[j] # 59) - 1)
    ELSE p

\* the keys of final bytes A B C D H F, after ESC [ and after ESC O
LetterTable == (65 :> "KeyArrowUp") @@ (66 :> "KeyArrowDown") @@ (67 :> "KeyArrowRight")
               @@ (68 :> "KeyArrowLeft") @@ (72 :> "KeyHome") @@ (70 :> "KeyEnd")

\* the keys of ESC [ n ~, by the digits of n
TildeTable == (<<49>> :> "KeyHome") @@ (<<50>> :> "KeyInsert") @@ (<<51>> :> "KeyDelete")
              @@ (<<52>> :> "KeyEnd") @@ (<<53>> :> "KeyPgUp") @@ (<<54>> :> "KeyPgDown")
              @@ (<<49, 53>> :> "KeyF5") @@ (<<49, 55>> :> "KeyF6") @@ (<<49, 56>> :> "KeyF7")
              @@ (<<49, 57>> :> "KeyF8") @@ (<<50, 48>> :> "KeyF9") @@ (<<50, 49>> :> "KeyF10")
              @@ (<<50, 51>> :> "KeyF11") @@ (<<50, 52>> :> "KeyF12")

\* the keys of ESC O P, Q, R, S
FunctionTable == (80 :> "KeyF1") @@ (81 :> "KeyF2") @@ (82 :> "KeyF3") @@ (83 :> "KeyF4")

\* sequence k is ESC [ params final or ESC O final
IsSequence(k) ==
    /\ Len(k) >= 3
    /\ k[2] \in {79, 91}
    /\ k[2] = 79 => Len(k) = 3
    /\ k[2] = 91 => k[Len(k)] >= 64 /\ k[Len(k)] <= 126

\* the events of the dispatch table for sequence k: one event or none
TableEvents(k) ==
    LET f == k[Len(k)]
        lead == LeadingParam(SubSeq(k, 3, Len(k) - 1))
    IN IF f \in DOMAIN LetterTable THEN <<KeyEvent(LetterTable[f], 0, "None")>>
       ELSE IF k[2] = 91 /\ f = 126 /\ lead \in DOMAIN TildeTable
       THEN <<KeyEvent(TildeTable[lead], 0, "None")>>
       ELSE IF k[2] = 79 /\ f \in DOMAIN FunctionTable
       THEN <<KeyEvent(FunctionTable[f], 0, "None")>>
       ELSE <<>>

\* C22: for a sequence ESC [ params final or ESC O final the decoder emits
\* the key of the dispatch table as one event, emits nothing for a sequence
\* outside the table, and never emits a Char event
C22_SequencesFollowTable ==
    (cfg = "decode" /\ IsSequence(keys)) =>
        /\ \A i \in 1..Len(Produced) : Produced[i].Key # "KeyChar"
        /\ Len(Produced) <= 1
        /\ DecodeQuiet => Produced = TableEvents(keys)

\* ESC [ 1 5 ~ was decoded to F5
C22_Witness ==
    /\ cfg = "decode"
    /\ DecodeQuiet
    /\ keys = <<27, 91, 49, 53, 126>>
    /\ sent = <<KeyEvent("KeyF5", 0, "None")>>

(***************************************************************************)
(* Properties of templates                                                 *)
(***************************************************************************)
\* the HoleIDs of the holes of node n, in document order
RECURSIVE HoleIDsOf(_), HoleIDsOfAll(_)

HoleIDsOfAll(kids) ==
    IF kids = <<>> THEN <<>> ELSE HoleIDsOf(Head(kids)) \o HoleIDsOfAll(Tail(kids))

HoleIDsOf(n) ==
    (IF n.Type = "NodeHole" THEN <<n.HoleID>> ELSE <<>>) \o HoleIDsOfAll(n.Children)

\* the number of "%v" in string s
HoleCount(s) == Cardinality({i \in 1..Len(s) : HasAt(s, <<37, 118>>, i)})

\* the smaller of two numbers
Min(a, b) == IF a <= b THEN a ELSE b

\* C23: Template numbers the holes 0, 1, 2, ... in document order, in spans,
\* headers, list items and quotes too; Render does not fail, and the holes
\* that show something are those with an index below the number of arguments,
\* each showing the argument of its index
C23_HolesShowArguments ==
    cfg = "template" =>
        /\ renderable # NoRenderable =>
              HoleIDsOf(renderable.Root) = [i \in 1..HoleCount(template) |-> i - 1]
        /\ mounted =>
              /\ ~panicked
              /\ shown = [i \in 1..Min(HoleCount(template), Len(args)) |->
                             [hole |-> i - 1, text |-> args[i]]]

(***************************************************************************)
(* Properties of the layout engine                                         *)
(***************************************************************************)
\* the tree is a Box around a Row or Col
IsBox == layout.Border \/ layout.Padding > 0

\* the Row or Col of the tree, and the constraint it is measured with: that
\* of the call, less the border and padding of the Box around it
FlexParent == IF IsBox THEN layout.Children[1] ELSE layout

ContentMain ==
    LET d == layout.Padding * 2 + (IF layout.Border THEN 2 ELSE 0)
        c == IF FlexParent.Direction = "DirRow" THEN constraint.w ELSE constraint.h
    IN IF c - d < 0 THEN 0 ELSE c - d

\* child i of the Row or Col has a Flex size along the main axis
IsFlexChild(i) ==
    LET k == FlexParent.Children[i]
    IN ~k.leaf /\ MainSize(FlexParent.Direction, k).Type = "SizeFlex"

\* total_fixed + total_auto: the value of the Fixed children and the measured
\* main-axis length of the Auto children
TotalFixedAndAuto ==
    LET dir == FlexParent.Direction
    IN SumSeq([i \in 1..Len(FlexParent.Children) |->
                  LET k == FlexParent.Children[i]
                  IN IF IsFlexChild(i) THEN 0
                     ELSE IF ~k.leaf /\ MainSize(dir, k).Type = "SizeFixed"
                     THEN MainSize(dir, k).Value
                     ELSE MainLength(dir, k)])

TotalFlexWeight ==
    SumSeq([i \in 1..Len(FlexParent.Children) |->
               IF IsFlexChild(i)
               THEN MainSize(FlexParent.Direction, FlexParent.Children[i]).Value ELSE 0])

Available == IF ContentMain - TotalFixedAndAuto < 0 THEN 0 ELSE ContentMain - TotalFixedAndAuto

\* C24: after Measure every Flex child of the Row or Col has the main-axis
\* length floor(available * weight / total_flex_weight), where available is
\* max(0, content_main - total_fixed - total_auto), and the lengths of the
\* Flex children sum to at most available
C24_FlexShares ==
    (cfg = "layout" /\ measured >= 1) =>
        /\ \A i \in 1..Len(FlexParent.Children) :
              IsFlexChild(i) =>
                  MainLength(FlexParent.Direction, FlexParent.Children[i]) =
                      (Available * MainSize(FlexParent.Direction,
                                            FlexParent.Children[i]).Value) \div TotalFlexWeight
        /\ SumSeq([i \in 1..Len(FlexParent.Children) |->
                      IF IsFlexChild(i)
                      THEN MainLength(FlexParent.Direction, FlexParent.Children[i])
                      ELSE 0]) <= Available

\* a Row of a flex(1) and a flex(3) child was measured at width 20: 5 and 15
C24_Witness ==
    /\ cfg = "layout"
    /\ measured >= 1
    /\ ~IsBox
    /\ layout.Direction = "DirRow"
    /\ constraint.w = 20
    /\ Len(layout.Children) = 2
    /\ layout.Children[1].Width = Flex(1)
    /\ layout.Children[2].Width = Flex(3)
    /\ ~layout.Children[1].leaf
    /\ layout.Children[1].Children = <<>>
    /\ layout.Children[1].computedW = 5
    /\ layout.Children[2].computedW = 15

\* C25: a second call of Measure on the same tree with the same constraint
\* returns the size the call before returned and leaves the computed width
\* and height of every node as they were
C25_MeasureIsIdempotent ==
    (cfg = "layout" /\ measured >= 2) => (size = prior.size /\ layout = prior.layout)

\* Measure was called twice on a tree with a flex child that got a share
C25_Witness ==
    /\ cfg = "layout"
    /\ measured = 2
    /\ \E i \in 1..Len(FlexParent.Children) :
          /\ IsFlexChild(i)
          /\ MainLength(FlexParent.Direction, FlexParent.Children[i]) > 0
    /\ size = prior.size

(***************************************************************************)
(* Properties of styles and buffers                                        *)
(***************************************************************************)
BoolAttributes == {"Bold", "Dim", "Italic", "Underline", "Strike", "Reverse", "Blink"}

\* C26: merging is associative; every boolean attribute of merge(a, b) is the
\* OR of those of a and b, and its foreground and background are those of b
\* (the child) when set, else those of a (the parent)
C26_MergeIsAssociative ==
    (cfg = "merge" /\ merged.done) =>
        /\ merged.left = merged.right
        /\ \A f \in BoolAttributes : merged.ab[f] = (styles[1][f] \/ styles[2][f])
        /\ merged.ab.Color = IF styles[2].Color # 0 THEN styles[2].Color ELSE styles[1].Color
        /\ merged.ab.BgColor =
              IF styles[2].BgColor # 0 THEN styles[2].BgColor ELSE styles[1].BgColor

\* a red bold parent, an italic child without color and a green grandchild
\* were merged: bold, italic and green
C26_Witness ==
    /\ cfg = "merge"
    /\ merged.done
    /\ styles[1].Color = RedCode /\ styles[1].Bold /\ ~styles[1].Italic
    /\ styles[2].Color = 0 /\ styles[2].Italic /\ ~styles[2].Bold
    /\ styles[3].Color = GreenCode
    /\ merged.ab.Color = RedCode
    /\ merged.left.Color = GreenCode /\ merged.left.Bold /\ merged.left.Italic

\* C27: Set with coordinates outside the grid changes nothing; after
\* Resize(w, h) the grid is w x h, a cell inside the old grid too is the old
\* cell of the same coordinates, and every other cell is the zero Cell
C27_SetClipsResizeKeeps ==
    cfg = "buffer" =>
        /\ (/\ bufCall.op = "Set"
            /\ ~(bufCall.x \in 0..(bufBefore.Width - 1) /\ bufCall.y \in 0..(bufBefore.Height - 1)))
              => buffer = bufBefore
        /\ bufCall.op = "Resize" =>
              /\ buffer.Width = bufCall.x
              /\ buffer.Height = bufCall.y
              /\ Len(buffer.Cells) = bufCall.x * bufCall.y
              /\ \A x \in 0..(buffer.Width - 1), y \in 0..(buffer.Height - 1) :
                    BufferGet(buffer, x, y) =
                        IF x < bufBefore.Width /\ y < bufBefore.Height
                        THEN bufBefore.Cells[y * bufBefore.Width + x + 1]
                        ELSE ZeroCell

\* a grid with a cell set in its second row was made wider: the cell is where
\* it was and the new column is zero
C27_Witness ==
    /\ cfg = "buffer"
    /\ bufCall.op = "Resize"
    /\ bufBefore.Width < buffer.Width
    /\ bufBefore.Height >= 2
    /\ buffer.Height >= 2
    /\ BufferGet(bufBefore, 0, 1) = MkCell(120, StyleBold)
    /\ BufferGet(buffer, 0, 1) = MkCell(120, StyleBold)
    /\ BufferGet(buffer, buffer.Width - 1, 1) = ZeroCell

(***************************************************************************)
(* Peek and the most recent Set                                            *)
(***************************************************************************)
\* the main program's current call is a Set
InSet == curOp.op = "set"

\* C28: a read through Peek creates no dependency: the effect e1, which reads
\* the cell a with Peek only, is never in a's subscriber set, a is never among
\* its dependencies, and no Set on a runs it
C28_PeekDoesNotSubscribe ==
    cfg = "peek" =>
        /\ "e1" \notin subscribers["a"]
        /\ "a" \notin dependencies["e1"]
        /\ InSet => runs["e1"] = 0 /\ "e1" \notin hit

\* e1 was created and ran, and a later Set that changed a ran e2 and returned
C28_Witness ==
    /\ cfg = "peek"
    /\ "e1" \in created
    /\ InSet
    /\ writes = 1
    /\ runs["e2"] = 1
    /\ runs["e1"] = 0
    /\ stack["t1"] # <<>>
    /\ Top("t1").kind = "main"
    /\ Top("t1").ops = <<>>

\* the frames of effect runs on the stack of thread t
EffectFrames(t) == {i \in 1..Len(stack[t]) : stack[t][i].kind = "effect"}

\* C29: in a one-thread sequence of Set, Get and Peek on the cell a, a Get or
\* Peek of the main program returns the value of the most recent Set (the
\* initial value before any Set), and every read made by an effect run that
\* Set(v) started returns v
C29_ReadsSeeLastSet ==
    cfg = "peek" =>
        /\ lastGet # NoGet => lastGet.v = latest[lastGet.c]
        /\ InSet =>
              \A i \in EffectFrames("t1") :
                 \A k \in 1..Len(stack["t1"][i].reads) :
                    stack["t1"][i].reads[k] = <<curOp.c, curOp.v>>

\* Set(1) changed a and started e2, which has read 1 with Get and with Peek
C29_Witness ==
    /\ cfg = "peek"
    /\ InSet
    /\ curOp.v = 1
    /\ \E i \in EffectFrames("t1") :
          /\ stack["t1"][i].owner = "e2"
          /\ stack["t1"][i].reads = <<<<"a", 1>>, <<"a", 1>>>>

(***************************************************************************)
(* A Set during the recomputation of a derived cell                        *)
(***************************************************************************)
\* thread t is inside no call
Quiet(t) == stack[t] = <<>> \/ Returned(t)

\* C30: a Set of a made while another thread recomputes d1 is not lost: once
\* both threads are outside their calls, d1 is either dirty, so that the next
\* Get calls the function again, or it caches the function's result on the
\* current value of a, which is what the next Get returns
C30_InvalidationKept ==
    (cfg = "race" /\ \A t \in Threads : Quiet(t)) =>
        (dirty["d1"] \/ cvalue["d1"] = EvalCell("d1"))

(***************************************************************************)
(* Set of a value whose type has no equality                               *)
(***************************************************************************)
\* C31: a Set on a cell of type []int always stores the slice it was given and
\* notifies the subscribers, also when the slice has the elements of the
\* current one: when the Set has returned the cell holds that slice, and the
\* effect e1, subscribed to the cell when the Set began, has run
C31_SetAlwaysPropagates ==
    (cfg = "slices" /\ InSet /\ Returned("t1") /\ ~panicked) =>
        /\ value[curOp.c] = curOp.v
        /\ "a" \in atCall.deps["e1"] => runs["e1"] >= 1

(***************************************************************************)
(* The active-subscriber slot                                              *)
(***************************************************************************)
\* thread t is inside Effect.Run or inside the recomputation of a derived cell
Tracking(t) == \E i \in 1..Len(stack[t]) : stack[t][i].kind \in {"effect", "computed"}

\* C32: whenever no effect run and no derived recomputation is in progress on
\* any thread, activeSubscriber is empty, also after two threads ran effects
\* with overlapping lifetimes
C32_SlotEmptyWhenIdle ==
    (\A t \in Threads : ~Tracking(t)) => activeSubscriber = Nil

(***************************************************************************)
(* A Set made by the render walk                                           *)
(***************************************************************************)
\* thread t called Screen.Frame while it holds Screen.mu itself: its Lock
\* never returns
LockedOut(t) == AtOp(t, {"frame"}) /\ mu = t

\* C33: a Set made during the render walk inside Frame on a cell the render
\* effect read is allowed: the re-run of the effect it causes completes, so no
\* thread waits in Frame for the mutex it holds itself
C33_SetInsideFrameCompletes == \A t \in Threads : ~LockedOut(t)

\* a hole of the template receives an argument that holds "**" or "!"
MarkupShown ==
    \E i \in 1..Min(HoleCount(template), Len(args)) : containsMarkup(args[i])

\* C34: rendering a hole whose string holds a markup sigil is total: whatever
\* the string contains, a "%v" included, the walk completes, and a hole of the
\* re-parsed fragment shows nothing
C34_MarkupHolesAreTotal ==
    (cfg = "template" /\ mounted /\ MarkupShown) =>
        /\ ~panicked
        /\ \A i \in 1..Len(shown) : shown[i].hole >= 0

(***************************************************************************)
(* Locks of the reactive graph                                             *)
(***************************************************************************)
\* thread t waits for a mutex that is never released
Deadlocked(t) == \E i \in 1..Len(stack[t]) : stack[t][i].kind = "locked"

\* C35: no interleaving of Gets and Sets made by several threads on an
\* acyclic graph deadlocks: no thread ever waits for a lock that is never
\* released
C35_NoDeadlock == \A t \in Threads : ~Deadlocked(t)

(***************************************************************************)
(* An effect that writes a cell it reads                                   *)
(***************************************************************************)
\* the cells whose subscriber set holds e
SubscribedTo(e) == {c \in Cells : e \in subscribers[c]}

BlankOutside(b, ws) == \A i \in 1..Len(b.Cells) : i \in ws \/ b.Cells[i] = BlankCell

\* C37: when Frame returns, every cell its draw callback did not write is a
\* space of default style in Back and in Front, whatever earlier frames and
\* DrawText calls left there
C37_FrameStartsBlank ==
    [][\A t \in Threads :
          FrameUnlock(t) =>
              /\ BlankOutside(Back', Top(t).todo)
              /\ BlankOutside(Front', Top(t).todo)]_vars

\* the draw callback of a Frame has written a cell and left alone another one
\* where the front buffer still shows the X of an earlier frame
C37_Witness ==
    /\ cfg = "corners"
    /\ AtEnd("t1", "draw")
    /\ Top("t1").todo # {}
    /\ \E i \in 1..Len(Back.Cells) :
          /\ i \notin Top("t1").todo
          /\ Front.Cells[i].Char = 88
          /\ Back.Cells[i] = BlankCell

\* the bytes of keys typed so far are the unfinished sequence only
OnlyUnfinished == typed = Len(keys) - 1

\* C38: when the timer of readByteTimeout fires after ESC [ and parameter
\* bytes, or after ESC O, the decoder emits no event for the unfinished
\* sequence and waits in its select again; the byte typed afterwards is
\* decoded as a fresh key, 'A' as the letter and not as an arrow
C38_TimeoutDropsSequence ==
    cfg = "late" =>
        /\ OnlyUnfinished => Produced = <<>>
        /\ ~OnlyUnfinished =>
              /\ Len(Produced) <= 1
              /\ \A i \in 1..Len(Produced) :
                    Produced[i] = processChar(keys[Len(keys)])
              /\ DecodeQuiet => Len(Produced) = 1

\* ESC [ 1 timed out, and the A typed afterwards was decoded as the letter A
C38_Witness ==
    /\ cfg = "late"
    /\ keys = <<27, 91, 49, 65>>
    /\ DecodeQuiet
    /\ sent = <<KeyEvent("KeyChar", 65, "None")>>

\* C39: an effect disposed from inside its own function finishes the run,
\* further tracked Gets included, without panic, and once the main program's
\* call has returned a disposed effect is in no cell's subscriber set
C39_DisposeWhileRunningIsSafe ==
    cfg \in DisposeConfigs =>
        /\ ~panicked
        /\ (Returned("t1") /\ disposed["e1"]) =>
              \A c \in Cells : "e1" \notin subscribers[c]

\* C40: once Close has returned no render pass writes to the terminal: a Set
\* on the cell the mounted view reads emits no bytes
C40_NoFrameAfterClose ==
    [][(cfg = "unmount" /\ closed /\ out' # out) => out' = <<>>]_vars

====
